---- MODULE Spec2Model ----
(***************************************************************************)
(* The expression evaluator of ic-repl (src/src/exp.rs): Exp::eval with    *)
(* its collaborators Method::get_info, call and parallel_calls, as a       *)
(* machine with an explicit stack of eval activations.  Every activation   *)
(* of Exp::eval is a frame; a frame's pc is the place its code has         *)
(* reached.  The agent (the transport), the interface registry of the      *)
(* network and the offline sink are the environment.                       *)
(***************************************************************************)
EXTENDS Integers, Sequences, FiniteSets, TLC

VARIABLES
    stack,          \* the activations of Exp::eval, innermost last
    ret,            \* what the activation that returned last returned
    env,            \* helper.env: variable name -> value
    offline,        \* helper.offline.is_some()
    messages,       \* helper.messages: the outgoing message log
    sink,           \* the lines output_message wrote to helper.offline
    canister_map,   \* helper.canister_map: principal -> CanisterInfo
    net,            \* the requests the current evaluation handed to the agent
    evald,          \* the positions eval was called on, in order
    nevals,         \* top-level evaluations started so far
    calls_ok,       \* offline calls (fn call) that returned Ok so far
    calls_failed    \* whether an offline call (fn call) returned Err so far

vars == <<stack, ret, env, offline, messages, sink, canister_map, net, evald,
          nevals, calls_ok, calls_failed>>

\* ------------------------------------------------------------------ bounds

\* top-level evaluations of one run
MaxEvals == 2

\* the most fields a record expression of a script has
MaxFields == 2

\* the lines a pipe holds before a write to it blocks
PipeCap == 2

\* ------------------------------------------------------------------ results

Ok(v) == [ok |-> TRUE, v |-> v]

Err(e) == [ok |-> FALSE, e |-> e]

NoRet == [none |-> TRUE]

None == [none |-> TRUE]

Some(x) == [some |-> x]

IsSome(o) == o # None

\* ------------------------------------------------------------------ values

VBool(b) == [t |-> "Bool", b |-> b]

VNull == [t |-> "Null"]

VText(s) == [t |-> "Text", s |-> s]

VNumber(n) == [t |-> "Number", n |-> n]

VBlob(bytes) == [t |-> "Blob", bytes |-> bytes]

VPrincipal(p) == [t |-> "Principal", p |-> p]

VInt64(n) == [t |-> "Int64", n |-> n]

VRecord(fs) == [t |-> "Record", fs |-> fs]

VVec(vs) == [t |-> "Vec", vs |-> vs]

VFloat64(f) == [t |-> "Float64", f |-> f]

\* IDLValue::Variant: the chosen field
VVariant(id, val) == [t |-> "Variant", f |-> [id |-> id, val |-> val]]

IDLField(id, val) == [id |-> id, val |-> val]

\* candid Label::Id and Label::Named
LabelId(n) == [id |-> n]

LabelNamed(s) == [named |-> s]

\* a byte vector that is not a Candid message
RawBytes(data) == [fmt |-> "raw", data |-> data]

\* a Candid message: the type table and the values it carries
CandidBytes(tys, vals) == [fmt |-> "candid", tys |-> tys, vals |-> vals]

\* ------------------------------------------------------------- expressions

Bool(b) == [k |-> "Bool", b |-> b]

Text(s) == [k |-> "Text", s |-> s]

Number(n) == [k |-> "Number", n |-> n]

Blob(bytes) == [k |-> "Blob", bytes |-> bytes]

Path(id) == [k |-> "Path", id |-> id]

Null == [k |-> "Null"]

Float64(f) == [k |-> "Float64", f |-> f]

Vec(es) == [k |-> "Vec", es |-> es]

\* Exp::Record: the fields, each a label and an expression, as written
Record(fields) == [k |-> "Record", fields |-> fields]

Field(id, val) == [id |-> id, val |-> val]

Fail(e) == [k |-> "Fail", e |-> e]

Apply(func, exps) == [k |-> "Apply", func |-> func, exps |-> exps]

Method(canister, method) == [canister |-> canister, method |-> method]

Call(method, args, mode) == [k |-> "Call", method |-> method, args |-> args, mode |-> mode]

\* Exp::Call with CallMode::Proxy(id)
ProxyCall(method, args, id) ==
    [k |-> "Call", method |-> method, args |-> args, mode |-> "Proxy", proxy |-> id]

FuncCall(method, args) == [method |-> method, args |-> args]

ParCall(calls) == [k |-> "ParCall", calls |-> calls]

Decode(method, blob) == [k |-> "Decode", method |-> method, blob |-> blob]

\* ---------------------------------------------------------------- the world

\* candid::types::Function
Function(args, rets, modes) == [args |-> args, rets |-> rets, modes |-> modes]

\* helper::CanisterInfo as the interface registry of the network serves it
CanisterInfo(methods, init, profiling) == [methods |-> methods, init |-> init, profiling |-> profiling]

\* the canisters whose interface the network can serve: p1 has a query method
\* get, update methods put and cq (a composite query is not a query), and is
\* instrumented; p2 serves no interface; pw is a wallet, whose wallet_call
\* forwards a call
Interface ==
    ("p1" :> CanisterInfo(
        ("get" :> Function(<<>>, <<"text">>, {"query"}))
        @@ ("put" :> Function(<<"text">>, <<"text">>, {}))
        @@ ("cq" :> Function(<<>>, <<"text">>, {"composite_query"})),
        Some(<<"text">>),
        Some(<<"f0">>)))
    @@ ("pw" :> CanisterInfo(
        ("wallet_call" :> Function(<<"record">>, <<"variant">>, {}))
        @@ ("wallet_receive" :> Function(<<>>, <<>>, {})),
        None,
        None))

AnonymousPrincipal == "2vxsx-fae"

\* a module image: the bytes of a Wasm module and the candid:args metadata in it
WasmNoArgs == RawBytes(<<0, 97>>)

WasmWithArgs == RawBytes(<<0, 97, 1>>)

\* the variables of the script so far
InitEnv ==
    ("c1" :> VPrincipal("p1")) @@ ("c2" :> VPrincipal("p2")) @@ ("wallet" :> VPrincipal("pw"))
    @@ ("x" :> VText("a")) @@ ("w" :> VBlob(WasmWithArgs)) @@ ("v" :> VBlob(WasmNoArgs))

\* what a canister may answer to a call of method: ping has one answer,
\* wallet_call answers with the bytes the forwarded call returned, which may
\* not be Candid, with a refusal, or with bytes that are not Candid, and the
\* other methods answer one of two texts or with bytes that are not Candid
Replies(method) ==
    IF method = "ping" THEN { CandidBytes(<<"text">>, <<VText("r1")>>) }
    ELSE IF method = "wallet_call"
    THEN { CandidBytes(<<"variant">>,
                       << VVariant(LabelNamed("Ok"),
                                   VRecord(<<IDLField(LabelNamed("return"), VBlob(b))>>)) >>) :
             b \in { CandidBytes(<<"text">>, <<VText("r1")>>), RawBytes(<<0>>) } }
         \cup { CandidBytes(<<"variant">>, << VVariant(LabelNamed("Err"), VText("refused")) >>),
                RawBytes(<<0>>) }
    ELSE { CandidBytes(<<"text">>, <<VText("r1")>>),
           CandidBytes(<<"text">>, <<VText("r2")>>),
           RawBytes(<<0>>) }

\* the byte that stands for a method name in a signed request
MethodByte(method) ==
    CASE method = "get" -> 1 [] method = "put" -> 2 [] method = "cq" -> 3 [] OTHER -> 0

\* the request id of a request: the hash of its content
RequestId(method) == <<171, MethodByte(method)>>

\* -------------------------------------------------------- library functions

\* candid Function::is_query
is_query(f) == "query" \in f.modes

\* IDLValue::value_ty
value_ty(v) ==
    CASE v.t = "Bool" -> "bool"
      [] v.t = "Null" -> "null"
      [] v.t = "Text" -> "text"
      [] v.t = "Number" -> "int"
      [] v.t = "Blob" -> "blob"
      [] v.t = "Principal" -> "principal"
      [] v.t = "Int64" -> "int64"
      [] v.t = "Float64" -> "float64"
      [] v.t = "Vec" -> "vec"
      [] v.t = "Variant" -> "variant"
      [] OTHER -> "record"

\* whether Candid serializes value v at type ty
Conforms(v, ty) == value_ty(v) = ty \/ (ty = "nat" /\ v.t = "Number")

ConformAll(vals, tys) ==
    /\ Len(vals) = Len(tys)
    /\ \A i \in 1..Len(vals) : Conforms(vals[i], tys[i])

\* IDLArgs::to_bytes_with_types
to_bytes_with_types(args, tys) ==
    IF ConformAll(args, tys) THEN Ok(CandidBytes(tys, args))
    ELSE Err("candid: type mismatch")

\* IDLArgs::to_bytes
to_bytes(args) == Ok(CandidBytes([i \in 1..Len(args) |-> value_ty(args[i])], args))

\* IDLArgs::from_bytes_with_types
from_bytes_with_types(bytes, tys) ==
    IF bytes.fmt = "candid" /\ ConformAll(bytes.vals, tys) THEN Ok(bytes.vals)
    ELSE Err("candid: cannot decode")

\* IDLArgs::from_bytes
from_bytes(bytes) ==
    IF bytes.fmt = "candid" THEN Ok(bytes.vals) ELSE Err("candid: cannot decode")

HexDigits == <<"0", "1", "2", "3", "4", "5", "6", "7", "8", "9", "a", "b", "c", "d", "e", "f">>

RECURSIVE hex_encode(_)
\* hex::encode
hex_encode(bytes) ==
    IF bytes = <<>> THEN ""
    ELSE HexDigits[(Head(bytes) \div 16) + 1] \o HexDigits[(Head(bytes) % 16) + 1]
         \o hex_encode(Tail(bytes))

\* QueryBuilder::sign: it fails, or yields the signed query
SignQuery(method) ==
    { Err("identity: cannot sign") } \cup { Ok([signed_query |-> <<81, MethodByte(method)>>]) }

\* UpdateBuilder::sign: it fails, or yields the request id and the signed update
SignUpdate(method) ==
    { Err("identity: cannot sign") }
    \cup { Ok([request_id |-> RequestId(method),
               signed_update |-> <<85>> \o RequestId(method)]) }

\* Agent::sign_request_status: it fails, or yields the signed status request
\* of the request id it was given
sign_request_status(effective_id, request_id) ==
    { Err("identity: cannot sign") }
    \cup { Ok([effective_canister_id |-> effective_id, request_id |-> request_id,
               signed_request_status |-> <<83>> \o request_id]) }

\* ------------------------------------------------------------ the resolver

MethodInfo(canister_id, signature, profiling) ==
    [canister_id |-> canister_id, signature |-> signature, profiling |-> profiling]

\* utils::str_to_principal: the principal a text denotes, or the principal a
\* variable of the script holds
str_to_principal(id, e) ==
    IF id \in DOMAIN Interface \cup {"p2"} THEN Ok(id)
    ELSE IF id \in DOMAIN e /\ e[id].t = "Principal" THEN Ok(e[id].p)
    ELSE Err("Cannot find canister " \o id)

\* CanisterMap::get: the cached interface, or else the interface fetched from
\* the network and memoized; a failed fetch caches nothing
CanisterMapGet(cm, id) ==
    IF id \in DOMAIN cm
    THEN { [r |-> Ok(cm[id]), cm |-> cm, fetched |-> <<>>] }
    ELSE { [r |-> Err("cannot fetch the interface"), cm |-> cm, fetched |-> <<id>>] }
         \cup (IF id \in DOMAIN Interface
               THEN { [r |-> Ok(Interface[id]), cm |-> (id :> Interface[id]) @@ cm,
                       fetched |-> <<id>>] }
               ELSE {})

\* ic_wasm parse_wasm and get_metadata "candid:args" of a module image:
\* no module, a module without the metadata, or the init types it declares
WasmInitArgs(bytes) ==
    IF bytes = WasmNoArgs THEN Ok(None)
    ELSE IF bytes = WasmWithArgs THEN Ok(Some(<<"text">>))
    ELSE Err("wasm: cannot parse the module")

\* Method::get_info: the outcomes r it can have, each with the interface
\* cache cm it leaves and the canisters whose interface it fetched
get_info(method, is_encode, e, cm) ==
    IF /\ is_encode
       /\ method.method = "__init_args"
       /\ method.canister \in DOMAIN e
       /\ e[method.canister].t = "Blob"
    THEN LET args == WasmInitArgs(e[method.canister].bytes) IN
         { [r |-> IF ~args.ok THEN args
                  ELSE IF args.v = None
                       THEN Ok(MethodInfo(AnonymousPrincipal, None, None))
                  ELSE Ok(MethodInfo(AnonymousPrincipal,
                                     Some(Function(args.v.some, <<>>, {})), None)),
            cm |-> cm, fetched |-> <<>>] }
    ELSE LET id == str_to_principal(method.canister, e) IN
         IF ~id.ok THEN { [r |-> id, cm |-> cm, fetched |-> <<>>] }
         ELSE { [r |-> IF ~g.r.ok
                       THEN Ok(MethodInfo(id.v, None, None))
                       ELSE LET info == g.r.v
                                signature ==
                                    IF method.method = "__init_args"
                                    THEN IF info.init = None THEN None
                                         ELSE Some(Function(info.init.some, <<>>, {}))
                                    ELSE IF method.method \in DOMAIN info.methods
                                         THEN Some(info.methods[method.method])
                                         ELSE None
                            IN Ok(MethodInfo(id.v, signature, info.profiling)),
                  cm |-> g.cm, fetched |-> g.fetched] :
                  g \in CanisterMapGet(cm, id.v) }

\* utils::get_effective_canister_id: no routing override applies to the
\* canisters of this model
get_effective_canister_id(canister_id, method, bytes) == Ok(Some(canister_id))

\* helper.default_effective_canister_id
default_effective_canister_id == "aaaaa-aa"

\* Option::unwrap_or
unwrap_or(o, d) == IF o = None THEN d ELSE o.some

\* utils::args_to_value: the value itself when there is one, as the script
\* of the Proxy mode expects of the answer of wallet_call, and else the tuple
\* of the values
args_to_value(args) ==
    IF Len(args) = 1 THEN args[1]
    ELSE VRecord([i \in 1..Len(args) |-> IDLField(LabelId(i - 1), args[i])])

\* profiling::ok_to_profile: a live update call to an instrumented canister
ok_to_profile(off, info) ==
    /\ ~off
    /\ info.profiling # None
    /\ ~(info.signature # None /\ is_query(info.signature.some))

\* ------------------------------------------------------------- the machine

\* the requests the agent sends: kind is query, update, fetch (of an
\* interface) or get_cycles; fn is the function that sent it and by the
\* position of the expression it was sent for
Request(kind, fn, by, canister_id, method, arg, effective_id) ==
    [kind |-> kind, fn |-> fn, by |-> by, canister_id |-> canister_id,
     method |-> method, arg |-> arg, effective_id |-> effective_id]

\* the interface fetches get_info made for the expression at position by
Fetches(ids, by) ==
    [i \in 1..Len(ids) |->
        [kind |-> "fetch", fn |-> "get_info", by |-> by, canister_id |-> ids[i]]]

\* a reading of the instruction counter for the expression at position by
GetCycles(by, canister_id) ==
    [kind |-> "get_cycles", fn |-> "get_cycles", by |-> by, canister_id |-> canister_id]

\* an activation of Exp::eval on expression e, the sub-expression at position
\* pos of the expression under evaluation; i, vals: the argument loop; ci:
\* the ParCall entry; the rest are the locals of the Call and ParCall arms.
\* failed lists the futures of a batch in the order they failed, and
\* overtaken tells that a future completed while an earlier one was in flight;
\* henv holds the variables of the child helper the activation spawned, and
\* hmap and hlog the interface cache and the log of a child helper that has
\* its own; hids are canister_id and proxy_id of the Proxy mode; proc is the
\* subprocess of exec with its reader threads
Frame(e, pos) ==
    [e |-> e, pos |-> pos, pc |-> "start", i |-> 1, vals |-> <<>>, ci |-> 1,
     info |-> None, bytes |-> None, before_cost |-> 0, msg |-> None,
     res |-> <<>>, futs |-> <<>>, failed |-> <<>>, overtaken |-> FALSE,
     henv |-> None, hmap |-> <<>>, hlog |-> <<>>, hids |-> <<>>, proc |-> None]

Running == stack # <<>>

Top == stack[Len(stack)]

Rest == SubSeq(stack, 1, Len(stack) - 1)

At(k, pc) == Running /\ Top.e.k = k /\ Top.pc = pc

\* helper.env of the helper an expression is evaluated with: the variables
\* of the innermost child helper, or those of the script
CurEnv ==
    LET hs == { k \in 1..Len(stack) : stack[k].henv # None } IN
    IF hs = {} THEN env
    ELSE stack[CHOOSE k \in hs : \A j \in hs : j <= k].henv.some

\* the activation on top returns r to its caller
Return(r) ==
    /\ stack' = Rest
    /\ ret' = r

\* the activation on top ends with r: it returns r to its caller, or it
\* panics, which unwinds every activation
Finish(r) ==
    /\ stack' = IF "panic" \in DOMAIN r THEN <<>> ELSE Rest
    /\ ret' = r

\* the activation on top goes on as f
Goto(f) ==
    /\ stack' = [stack EXCEPT ![Len(stack)] = f]
    /\ ret' = NoRet

\* the activation on top, going on as f, calls eval on its sub-expression e
\* at position pos
EvalChild(f, e, pos) ==
    /\ stack' = Append([stack EXCEPT ![Len(stack)] = f], Frame(e, pos))
    /\ ret' = NoRet
    /\ evald' = Append(evald, pos)

\* nothing outside the evaluator's own activations changes
Quiet == UNCHANGED <<env, offline, messages, sink, canister_map, net, nevals,
                     calls_ok, calls_failed>>

\* the literals: Exp::Bool, Exp::Null, Exp::Text, Exp::Number, Exp::Float64,
\* Exp::Blob
EvalLit ==
    /\ Running
    /\ Top.pc = "start"
    /\ Top.e.k \in {"Bool", "Null", "Text", "Number", "Float64", "Blob"}
    /\ Return(Ok(CASE Top.e.k = "Bool" -> VBool(Top.e.b)
                   [] Top.e.k = "Null" -> VNull
                   [] Top.e.k = "Float64" -> VFloat64(Top.e.f)
                   [] Top.e.k = "Text" -> VText(Top.e.s)
                   [] Top.e.k = "Number" -> VNumber(Top.e.n)
                   [] Top.e.k = "Blob" -> VBlob(Top.e.bytes)))
    /\ UNCHANGED evald
    /\ Quiet

\* Exp::Path with no selector
EvalPath ==
    /\ At("Path", "start")
    /\ Return(IF Top.e.id \in DOMAIN CurEnv THEN Ok(CurEnv[Top.e.id])
              ELSE Err("Undefined variable " \o Top.e.id))
    /\ UNCHANGED evald
    /\ Quiet

\* a Fail that hands the error of its expression on: the fault
\* C12_FailTurnsErrorIntoText detects
EvalFailPropagates ==
    /\ Running
    /\ Top.e.k = "Fail"
    /\ \/ /\ Top.pc = "start"
          /\ EvalChild([Top EXCEPT !.pc = "wait"], Top.e.e, Append(Top.pos, 1))
       \/ /\ Top.pc = "wait"
          /\ ret # NoRet
          /\ Return(IF ret.ok THEN Err("Expects an error state") ELSE ret)
          /\ UNCHANGED evald
    /\ Quiet

\* Exp::Fail
EvalFail ==
    /\ Running
    /\ Top.e.k = "Fail"
    /\ \/ /\ Top.pc = "start"
          /\ EvalChild([Top EXCEPT !.pc = "wait"], Top.e.e, Append(Top.pos, 1))
       \/ /\ Top.pc = "wait"
          /\ ret # NoRet
          /\ Return(IF ret.ok THEN Err("Expects an error state") ELSE Ok(VText(ret.e)))
          /\ UNCHANGED evald
    /\ Quiet

IsApply(func) == Running /\ Top.e.k = "Apply" /\ Top.e.func = func

\* an ite that evaluates both branches and then selects one: the fault
\* C10_IteEvaluatesOneBranch detects
EvalIteBoth ==
    /\ IsApply("ite")
    /\ \/ /\ Top.pc = "start"
          /\ IF Len(Top.e.exps) # 3
             THEN /\ Return(Err("ite expects a bool, true branch and false branch"))
                  /\ UNCHANGED evald
             ELSE EvalChild([Top EXCEPT !.pc = "cond"], Top.e.exps[1], Append(Top.pos, 1))
       \/ /\ Top.pc = "cond"
          /\ ret # NoRet
          /\ IF ~ret.ok
             THEN Return(ret) /\ UNCHANGED evald
             ELSE IF ret.v \in {VBool(TRUE), VBool(FALSE)}
             THEN EvalChild([Top EXCEPT !.pc = "both", !.vals = <<ret.v>>],
                            Top.e.exps[2], Append(Top.pos, 2))
             ELSE /\ Return(Err("ite expects the first argument to be a boolean expression"))
                  /\ UNCHANGED evald
       \/ /\ Top.pc = "both"
          /\ ret # NoRet
          /\ IF ~ret.ok
             THEN Return(ret) /\ UNCHANGED evald
             ELSE EvalChild([Top EXCEPT !.pc = "branch", !.vals = Append(@, ret.v)],
                            Top.e.exps[3], Append(Top.pos, 3))
       \/ /\ Top.pc = "branch"
          /\ ret # NoRet
          /\ Return(IF Top.vals[1].b /\ ret.ok THEN Ok(Top.vals[2]) ELSE ret)
          /\ UNCHANGED evald
    /\ Quiet

\* Exp::Apply "ite"
EvalIte ==
    /\ IsApply("ite")
    /\ \/ /\ Top.pc = "start"
          /\ IF Len(Top.e.exps) # 3
             THEN /\ Return(Err("ite expects a bool, true branch and false branch"))
                  /\ UNCHANGED evald
             ELSE EvalChild([Top EXCEPT !.pc = "cond"], Top.e.exps[1], Append(Top.pos, 1))
       \/ /\ Top.pc = "cond"
          /\ ret # NoRet
          /\ IF ~ret.ok
             THEN Return(ret) /\ UNCHANGED evald
             ELSE IF ret.v = VBool(TRUE)
             THEN EvalChild([Top EXCEPT !.pc = "branch"], Top.e.exps[2], Append(Top.pos, 2))
             ELSE IF ret.v = VBool(FALSE)
             THEN EvalChild([Top EXCEPT !.pc = "branch"], Top.e.exps[3], Append(Top.pos, 3))
             ELSE /\ Return(Err("ite expects the first argument to be a boolean expression"))
                  /\ UNCHANGED evald
       \/ /\ Top.pc = "branch"
          /\ ret # NoRet
          /\ Return(ret)
          /\ UNCHANGED evald
    /\ Quiet

\* an exist that hands the error of its expression on: the fault
\* C11_ExistTellsSuccess detects
EvalExistPropagates ==
    /\ IsApply("exist")
    /\ \/ /\ Top.pc = "start"
          /\ IF Len(Top.e.exps) # 1
             THEN /\ Return(Err("exist expects an expression"))
                  /\ UNCHANGED evald
             ELSE EvalChild([Top EXCEPT !.pc = "wait"], Top.e.exps[1], Append(Top.pos, 1))
       \/ /\ Top.pc = "wait"
          /\ ret # NoRet
          /\ Return(IF ret.ok THEN Ok(VBool(TRUE)) ELSE ret)
          /\ UNCHANGED evald
    /\ Quiet

\* Exp::Apply "exist"
EvalExist ==
    /\ IsApply("exist")
    /\ \/ /\ Top.pc = "start"
          /\ IF Len(Top.e.exps) # 1
             THEN /\ Return(Err("exist expects an expression"))
                  /\ UNCHANGED evald
             ELSE EvalChild([Top EXCEPT !.pc = "wait"], Top.e.exps[1], Append(Top.pos, 1))
       \/ /\ Top.pc = "wait"
          /\ ret # NoRet
          /\ Return(Ok(VBool(ret.ok)))
          /\ UNCHANGED evald
    /\ Quiet

\* an argument loop that evaluates the arguments from the last to the
\* first: the fault C18_EvaluatedOnceInOrder detects
ArgLoopBackwards(f, exps, base, after) ==
    IF f.i <= Len(exps)
    THEN EvalChild([f EXCEPT !.pc = "args"], exps[Len(exps) + 1 - f.i],
                   Append(base, Len(exps) + 1 - f.i))
    ELSE Goto([f EXCEPT !.pc = after]) /\ UNCHANGED evald

\* the argument loop `for e in exps { args.push(e.eval(helper)?) }` of the
\* activation on top, going on as f: eval of the next argument, the one at
\* position base.i, or, with all arguments evaluated, on to the place after
ArgLoop(f, exps, base, after) ==
    IF f.i <= Len(exps)
    THEN EvalChild([f EXCEPT !.pc = "args"], exps[f.i], Append(base, f.i))
    ELSE Goto([f EXCEPT !.pc = after]) /\ UNCHANGED evald

\* an argument loop without the `?`, which drops a failed argument and goes
\* on: the fault C13_ErrorsGoUp detects
ArgReturnedSkips(exps, base, after) ==
    /\ ret # NoRet
    /\ ArgLoop([Top EXCEPT !.vals = IF ret.ok THEN Append(@, ret.v) ELSE @, !.i = @ + 1],
               exps, base, after)

\* an argument returned: its value joins vals and the loop goes on, or its
\* error is returned by the `?`
ArgReturned(exps, base, after) ==
    /\ ret # NoRet
    /\ IF ret.ok
       THEN ArgLoop([Top EXCEPT !.vals = Append(@, ret.v), !.i = @ + 1], exps, base, after)
       ELSE Return(ret) /\ UNCHANGED evald

\* --------------------------------------------------------- the builtins

\* a panic of the evaluating thread: not a Result, no caller sees it
Panic(e) == [ok |-> FALSE, e |-> e, panic |-> TRUE]

IsPanic(r) == "panic" \in DOMAIN r

\* candid idl_hash of the field names of this model
idl_hash(name) ==
    CASE name = "a" -> 97
      [] name = "b" -> 98
      [] name = "c" -> 99
      [] OTHER -> 100

\* Label::get_id: the id of a numbered label, the hash of a named one
get_id(l) == IF "id" \in DOMAIN l THEN l.id ELSE idl_hash(l.named)

\* the fields fs with field f put behind the fields whose id is not greater
RECURSIVE InsertByKey(_, _)
InsertByKey(fs, f) ==
    IF fs = <<>> THEN <<f>>
    ELSE IF get_id(fs[Len(fs)].id) <= get_id(f.id) THEN Append(fs, f)
    ELSE Append(InsertByKey(SubSeq(fs, 1, Len(fs) - 1), f), fs[Len(fs)])

\* a sort that does not order the fields
sort_by_nothing(fs) == fs

\* slice::sort_unstable_by_key on the label ids: for the short slices of
\* records it is an insertion sort
RECURSIVE sort_unstable_by_key(_)
sort_unstable_by_key(fs) ==
    IF fs = <<>> THEN <<>>
    ELSE InsertByKey(sort_unstable_by_key(SubSeq(fs, 1, Len(fs) - 1)), fs[Len(fs)])

\* candid::utils::check_unique on the labels of sorted fields: two equal
\* labels, which are labels of one id, are next to each other
check_unique(fs) ==
    IF \E i \in 1..(Len(fs) - 1) : get_id(fs[i].id) = get_id(fs[i + 1].id)
    THEN Err("label hash collision")
    ELSE Ok(TRUE)

\* fn concat of the builtins
concat(args) ==
    IF Len(args) = 2 /\ args[1].t = "Vec" /\ args[2].t = "Vec"
    THEN Ok(VVec(args[1].vs \o args[2].vs))
    ELSE IF Len(args) = 2 /\ args[1].t = "Blob" /\ args[2].t = "Blob"
    THEN Ok(VBlob(RawBytes(<<args[1].bytes, args[2].bytes>>)))
    ELSE IF Len(args) = 2 /\ args[1].t = "Text" /\ args[2].t = "Text"
    THEN Ok(VText(args[1].s \o args[2].s))
    ELSE IF Len(args) = 2 /\ args[1].t = "Record" /\ args[2].t = "Record"
    THEN LET fs == sort_unstable_by_key(args[1].fs \o args[2].fs)
             unique == check_unique(fs)
         IN IF unique.ok THEN Ok(VRecord(fs)) ELSE unique
    ELSE Err("concat expects two vec, record or text")

\* the characters of the decimal digits
DigitChars == <<"0", "1", "2", "3", "4", "5", "6", "7", "8", "9">>

\* the natural number a sequence of digit characters denotes
RECURSIVE NatOf(_)
NatOf(ds) ==
    IF ds = <<>> THEN 0
    ELSE 10 * NatOf(SubSeq(ds, 1, Len(ds) - 1))
         + (CHOOSE d \in 0..9 : DigitChars[d + 1] = ds[Len(ds)])

\* BigInt::from_str on the characters of a number: an optional sign and at
\* least one digit
BigIntFromStr(cs) ==
    LET signed == cs # <<>> /\ cs[1] \in {"-", "+"}
        ds == IF signed THEN SubSeq(cs, 2, Len(cs)) ELSE cs
    IN IF ds = <<>> \/ \E i \in 1..Len(ds) : \A d \in 1..10 : DigitChars[d] # ds[i]
       THEN Err("invalid digit found in string")
       ELSE Ok(IF signed /\ cs[1] = "-" THEN 0 - NatOf(ds) ELSE NatOf(ds))

\* the digit characters of a natural number
RECURSIVE DigitsOf(_)
DigitsOf(n) ==
    IF n < 10 THEN <<DigitChars[n + 1]>>
    ELSE Append(DigitsOf(n \div 10), DigitChars[(n % 10) + 1])

\* BigInt::to_string
BigIntToString(i) == IF i < 0 THEN <<"-">> \o DigitsOf(0 - i) ELSE DigitsOf(i)

Abs(i) == IF i < 0 THEN 0 - i ELSE i

Sign(i) == IF i < 0 THEN 0 - 1 ELSE IF i = 0 THEN 0 ELSE 1

\* BigInt::div of a by b # 0: the quotient truncated toward zero
TruncDiv(a, b) == Sign(a) * Sign(b) * (Abs(a) \div Abs(b))

\* utils::cast_type of a value to int or to float64: a number literal is
\* parsed, a float is a float64 already, and nothing else is a number
cast_type(v, ty) ==
    IF v.t = "Number"
    THEN LET i == BigIntFromStr(v.n) IN
         IF ~i.ok THEN i
         ELSE IF ty = "int" THEN Ok([t |-> "Int", i |-> i.v]) ELSE Ok(VFloat64([n |-> i.v, d |-> 1]))
    ELSE IF v.t = "Float64" /\ ty = "float64" THEN Ok(v)
    ELSE Err("cannot cast the value to " \o ty)

\* the integer arm of the arithmetic builtins on the BigInts v1 and v2: the
\* division of BigInt panics on the divisor zero
IntArith(func, v1, v2) ==
    CASE func = "add" -> Ok(VNumber(BigIntToString(v1 + v2)))
      [] func = "sub" -> Ok(VNumber(BigIntToString(v1 - v2)))
      [] func = "mul" -> Ok(VNumber(BigIntToString(v1 * v2)))
      [] func = "div" ->
            IF v2 = 0 THEN Panic("attempt to divide by zero")
            ELSE Ok(VNumber(BigIntToString(TruncDiv(v1, v2))))
      [] func = "lt" -> Ok(VBool(v1 < v2))
      [] func = "lte" -> Ok(VBool(v1 <= v2))
      [] func = "gt" -> Ok(VBool(v1 > v2))
      [] func = "gte" -> Ok(VBool(v1 >= v2))

\* the float arm of the arithmetic builtins on the f64s v1 and v2. The
\* floats of this model are the fractions n/d that binary64 holds exactly,
\* each in lowest terms, the two infinities [inf |-> 1] and [inf |-> -1],
\* and NaN; a division by zero yields an infinity or NaN
FloatArith(func, v1, v2) ==
    LET NaN == [nan |-> TRUE]
        IsNaN(x) == "nan" \in DOMAIN x
        IsFinite(x) == "n" \in DOMAIN x
        Frac(n, d) ==
            LET e == CHOOSE k \in 1..Abs(d) :
                        /\ (Abs(n) * k) % Abs(d) = 0
                        /\ \A m \in 1..(k - 1) : (Abs(n) * m) % Abs(d) # 0
            IN [n |-> Sign(d) * Sign(n) * ((Abs(n) * e) \div Abs(d)), d |-> e]
        FSign(x) == IF IsFinite(x) THEN Sign(x.n) ELSE x.inf
        FNeg(x) ==
            IF IsNaN(x) THEN NaN
            ELSE IF IsFinite(x) THEN [n |-> 0 - x.n, d |-> x.d]
            ELSE [inf |-> 0 - x.inf]
        FAdd(x, y) ==
            IF IsNaN(x) \/ IsNaN(y) THEN NaN
            ELSE IF IsFinite(x) /\ IsFinite(y) THEN Frac(x.n * y.d + y.n * x.d, x.d * y.d)
            ELSE IF ~IsFinite(x) /\ ~IsFinite(y) THEN (IF x = y THEN x ELSE NaN)
            ELSE IF IsFinite(x) THEN y ELSE x
        FMul(x, y) ==
            IF IsNaN(x) \/ IsNaN(y) THEN NaN
            ELSE IF IsFinite(x) /\ IsFinite(y) THEN Frac(x.n * y.n, x.d * y.d)
            ELSE IF FSign(x) * FSign(y) = 0 THEN NaN
            ELSE [inf |-> FSign(x) * FSign(y)]
        FDiv(x, y) ==
            IF IsNaN(x) \/ IsNaN(y) THEN NaN
            ELSE IF ~IsFinite(x) /\ ~IsFinite(y) THEN NaN
            ELSE IF ~IsFinite(y) THEN [n |-> 0, d |-> 1]
            ELSE IF y.n = 0
                 THEN (IF FSign(x) = 0 THEN NaN ELSE [inf |-> FSign(x)])
            ELSE IF ~IsFinite(x) THEN [inf |-> FSign(x) * FSign(y)]
            ELSE Frac(x.n * y.d, x.d * y.n)
        FLess(x, y) ==
            /\ ~IsNaN(x)
            /\ ~IsNaN(y)
            /\ x # y
            /\ IF IsFinite(x) /\ IsFinite(y) THEN x.n * y.d < y.n * x.d
               ELSE IF ~IsFinite(x) THEN x.inf < 0
               ELSE y.inf > 0
    IN CASE func = "add" -> Ok(VFloat64(FAdd(v1, v2)))
         [] func = "sub" -> Ok(VFloat64(FAdd(v1, FNeg(v2))))
         [] func = "mul" -> Ok(VFloat64(FMul(v1, v2)))
         [] func = "div" -> Ok(VFloat64(FDiv(v1, v2)))
         [] func = "lt" -> Ok(VBool(FLess(v1, v2)))
         [] func = "lte" -> Ok(VBool(FLess(v1, v2) \/ (~IsNaN(v1) /\ v1 = v2)))
         [] func = "gt" -> Ok(VBool(FLess(v2, v1)))
         [] func = "gte" -> Ok(VBool(FLess(v2, v1) \/ (~IsNaN(v1) /\ v1 = v2)))

\* the arithmetic and comparison builtins
arith(func, args) ==
    IF Len(args) # 2 THEN Err(func \o " expects two numbers")
    ELSE IF args[1].t = "Float64" \/ args[2].t = "Float64"
    THEN LET v1 == cast_type(args[1], "float64")
             v2 == cast_type(args[2], "float64")
         IN IF ~v1.ok THEN v1
            ELSE IF ~v2.ok THEN v2
            ELSE FloatArith(func, v1.v.f, v2.v.f)
    ELSE LET v1 == cast_type(args[1], "int")
             v2 == cast_type(args[2], "int")
         IN IF ~v1.ok THEN v1
            ELSE IF ~v2.ok THEN v2
            ELSE IntArith(func, v1.v.i, v2.v.i)

\* a statement of a function body: `let id = e`
Let(id, e) == [id |-> id, e |-> e]

\* helper.func_env: the functions the script has defined, each with its
\* formal arguments and its body; one of them has the name of a builtin
func_env ==
    ("id1" :> <<<<"a">>, <<Let("_", Path("a"))>>>>)
    @@ ("pair" :> <<<<"a", "b">>,
                   <<Let("t", Vec(<<Path("a"), Path("b")>>)), Let("_", Path("t"))>>>>)
    @@ ("quiet" :> <<<<"a">>, <<Let("y", Path("a"))>>>>)
    @@ ("shadow" :> <<<<"x">>, <<Let("x", Text("local")), Let("_", Path("x"))>>>>)
    @@ ("stops" :> <<<<>>, <<Let("_", Text("1")), Let("z", Path("undefined")),
                            Let("_", Text("2"))>>>>)
    @@ ("outer" :> <<<<"a">>, <<Let("_", Apply("pair", <<Path("a"), Path("x")>>))>>>>)
    @@ ("send" :> <<<<"m">>, <<Let("_", Text("kept"))>>>>)

\* helper.spawn: the variables of the child helper, a mapping of its own
\* that starts with the variables of its parent
spawn(e) == e

\* a binding that gives every formal argument the first value: the fault
\* C17_FunctionCall detects
BindFirst(e, formal_args, args) ==
    [id \in DOMAIN e \cup { formal_args[i] : i \in 1..Len(formal_args) } |->
        IF \E i \in 1..Len(formal_args) : formal_args[i] = id THEN args[1] ELSE e[id]]

\* the loop `for (id, v) in formal_args.iter().zip(args)` of apply_func:
\* env.insert of each formal argument with its value, a later insert of a
\* name replacing an earlier one
BindFormals(e, formal_args, args) ==
    [id \in DOMAIN e \cup { formal_args[i] : i \in 1..Len(formal_args) } |->
        IF \E i \in 1..Len(formal_args) : formal_args[i] = id
        THEN args[CHOOSE i \in 1..Len(formal_args) :
                    /\ formal_args[i] = id
                    /\ \A j \in 1..Len(formal_args) : formal_args[j] = id => j <= i]
        ELSE e[id]]

\* whether apply_func runs the body of func on args
RunsBody(func, args) == func \in DOMAIN func_env /\ Len(func_env[func][1]) = Len(args)

\* apply_func, when it does not run a body: the function is unknown, or it
\* is given another number of arguments than it has formal arguments
apply_func(func, args) ==
    IF func \notin DOMAIN func_env THEN Err("Unknown function " \o func)
    ELSE Err(func \o " expects " \o ToString(Len(func_env[func][1]))
             \o " arguments, but " \o ToString(Len(args)) \o " is provided")

\* Apply "exec" up to cmd.spawn: the error of the arguments, or whether the
\* output is silenced
exec_args(args) ==
    IF args = <<>> \/ args[1].t # "Text"
    THEN Err("exec expects (text command, ...text args)")
    ELSE LET n == Len(args)
             field(fs, name) ==
                 LET hits == { j \in DOMAIN fs : fs[j].id = LabelNamed(name) } IN
                 IF hits = {} THEN None ELSE Some(fs[CHOOSE j \in hits : TRUE].val)
             bad(i) ==
                 IF args[i].t = "Text" THEN None
                 ELSE IF args[i].t = "Record" /\ i = n
                 THEN LET cwd == field(args[i].fs, "cwd")
                          silence == field(args[i].fs, "silence")
                      IN IF cwd # None /\ cwd.some.t # "Text"
                         THEN Some("cwd expects a string")
                         ELSE IF silence # None /\ silence.some.t # "Bool"
                         THEN Some("silence expects a boolean")
                         ELSE None
                 ELSE Some("exec expects string arguments")
             bads == { i \in 2..n : bad(i) # None }
             silence == IF args[n].t = "Record" THEN field(args[n].fs, "silence") ELSE None
         IN IF bads # {}
            THEN Err(bad(CHOOSE i \in bads : \A j \in bads : i <= j).some)
            ELSE Ok([is_silence |-> silence # None /\ silence.some.b])

\* the builtins that evaluate their arguments first
ApplyBuiltin(func, args) ==
    CASE func = "not" ->
            IF Len(args) = 1 /\ args[1].t = "Bool" THEN Ok(VBool(~args[1].b))
            ELSE Err("not expects a bool value")
      [] func \in {"and", "or"} ->
            IF Len(args) = 2 /\ args[1].t = "Bool" /\ args[2].t = "Bool"
            THEN Ok(VBool(IF func = "and" THEN args[1].b /\ args[2].b
                          ELSE args[1].b \/ args[2].b))
            ELSE Err(func \o " expects bool values")
      [] func \in {"eq", "neq"} ->
            IF Len(args) # 2 THEN Err(func \o " expects two values")
            ELSE IF value_ty(args[1]) # value_ty(args[2])
            THEN Err(func \o " expects two values of the same type")
            ELSE Ok(VBool(IF func = "eq" THEN args[1] = args[2] ELSE args[1] # args[2]))
      [] func = "concat" -> concat(args)
      [] func = "exec" -> exec_args(args)
      [] func \in {"lt", "lte", "gt", "gte", "add", "sub", "mul", "div"} -> arith(func, args)
      [] OTHER -> apply_func(func, args)

\* the match arms "read_state" and "send", which have the guard
\* helper.offline.is_none()
IsTransport(func) == func \in {"read_state", "send"} /\ ~offline

\* a match whose arms "read_state" and "send" have no guard: the fault
\* C23_OfflineBuiltinsAreUserFunctions detects
EvalApplyUnguarded ==
    /\ Running
    /\ Top.e.k = "Apply"
    /\ Top.e.func \notin {"ite", "exist", "export"}
    /\ \/ /\ Top.pc = "start"
          /\ ArgLoop(Top, Top.e.exps, Top.pos, "apply")
       \/ /\ Top.pc = "args"
          /\ ArgReturned(Top.e.exps, Top.pos, "apply")
       \/ /\ Top.pc = "apply"
          /\ IF Top.e.func \in {"read_state", "send"}
             THEN Goto([Top EXCEPT !.pc = "transport"])
             ELSE IF RunsBody(Top.e.func, Top.vals)
             THEN Goto([Top EXCEPT !.pc = "body", !.ci = 1,
                                   !.henv = Some(BindFormals(spawn(CurEnv),
                                                             func_env[Top.e.func][1],
                                                             Top.vals))])
             ELSE IF Top.e.func = "exec" /\ exec_args(Top.vals).ok
             THEN Goto([Top EXCEPT !.pc = "spawn"])
             ELSE Finish(ApplyBuiltin(Top.e.func, Top.vals))
          /\ UNCHANGED evald
    /\ Quiet

\* Exp::Apply of a function that evaluates its arguments first: the match on
\* the name, whose last arm is apply_func
EvalApply ==
    /\ Running
    /\ Top.e.k = "Apply"
    /\ Top.e.func \notin {"ite", "exist", "export"}
    /\ \/ /\ Top.pc = "start"
          /\ ArgLoop(Top, Top.e.exps, Top.pos, "apply")
       \/ /\ Top.pc = "args"
          /\ ArgReturned(Top.e.exps, Top.pos, "apply")
       \/ /\ Top.pc = "apply"
          /\ IF IsTransport(Top.e.func)
             THEN Goto([Top EXCEPT !.pc = "transport"])
             ELSE IF RunsBody(Top.e.func, Top.vals)
             THEN Goto([Top EXCEPT !.pc = "body", !.ci = 1,
                                   !.henv = Some(BindFormals(spawn(CurEnv),
                                                             func_env[Top.e.func][1],
                                                             Top.vals))])
             ELSE IF Top.e.func = "exec" /\ exec_args(Top.vals).ok
             THEN Goto([Top EXCEPT !.pc = "spawn"])
             ELSE Finish(ApplyBuiltin(Top.e.func, Top.vals))
          /\ UNCHANGED evald
    /\ Quiet

\* what a command may do when it runs: the lines it writes, in their order,
\* each to its standard output or to its standard error, and the code it
\* exits with, which is None when a signal ends it. One command writes more
\* to its standard error than a pipe holds
Runs ==
    LET out(line) == [to |-> "stdout", line |-> line]
        err(line) == [to |-> "stderr", line |-> line]
    IN { [writes |-> <<>>, code |-> Some(0)],
         [writes |-> <<out("true")>>, code |-> Some(0)],
         [writes |-> <<out("a"), err("warning"), out("b c")>>, code |-> Some(0)],
         [writes |-> <<err("oops")>>, code |-> Some(1)],
         [writes |-> <<>>, code |-> None],
         [writes |-> [i \in 1..(PipeCap + 1) |-> err("noise")], code |-> Some(0)] }

\* candid_parser::parse_idl_value of a line of output
parse_idl_value(str) ==
    CASE str = "true" -> Ok(VBool(TRUE))
      [] str = "false" -> Ok(VBool(FALSE))
      [] str = "null" -> Ok(VNull)
      [] OTHER -> Err("candid parser: cannot parse the value")

\* Apply "exec": cmd.spawn, which can fail, and the threads that read the
\* standard output and, unless silenced, the standard error of the child
ExecSpawn ==
    /\ At("Apply", "spawn")
    /\ \/ Return(Err("cannot spawn the command"))
       \/ \E run \in Runs :
            Goto([Top EXCEPT
                    !.pc = "wait",
                    !.proc = Some([run |-> run, child |-> "running", written |-> 0,
                                   stdout |-> <<>>, stderr |-> <<>>,
                                   final_stdout |-> "",
                                   stdout_thread |-> "running",
                                   stderr_thread |-> IF exec_args(Top.vals).v.is_silence
                                                     THEN "none" ELSE "running"])])
    /\ UNCHANGED evald
    /\ Quiet

\* the child of exec: it writes its next line to the pipe of its standard
\* output or of its standard error (Stdio::piped), which blocks while that
\* pipe is full, and it exits after its last line; what it wrote stays in
\* the pipes
ExecChild ==
    /\ Running
    /\ Top.e.k = "Apply"
    /\ Top.pc \in {"wait", "join_stdout", "join_stderr"}
    /\ LET proc == Top.proc.some
           next == proc.run.writes[proc.written + 1]
       IN /\ proc.child = "running"
          /\ IF proc.written = Len(proc.run.writes)
             THEN Goto([Top EXCEPT !.proc = Some([proc EXCEPT !.child = "exited"])])
             ELSE /\ Len(proc[next.to]) < PipeCap
                  /\ Goto([Top EXCEPT !.proc = Some([proc EXCEPT
                                                       ![next.to] = Append(@, next.line),
                                                       !.written = @ + 1])])
    /\ UNCHANGED evald
    /\ Quiet

\* the reader threads of exec: the thread of the standard output takes the
\* lines out of the pipe, keeps the last line it read and ends when the pipe
\* is empty and closed, and so does the thread of the standard error, which
\* keeps nothing
ExecReaders ==
    /\ Running
    /\ Top.e.k = "Apply"
    /\ Top.pc \in {"wait", "join_stdout", "join_stderr"}
    /\ LET proc == Top.proc.some IN
       \/ /\ proc.stdout_thread = "running"
          /\ proc.stdout # <<>>
          /\ Goto([Top EXCEPT !.proc = Some([proc EXCEPT !.stdout = Tail(proc.stdout),
                                                         !.final_stdout = Head(proc.stdout)])])
       \/ /\ proc.stdout_thread = "running"
          /\ proc.stdout = <<>>
          /\ proc.child = "exited"
          /\ Goto([Top EXCEPT !.proc = Some([proc EXCEPT !.stdout_thread = "ended"])])
       \/ /\ proc.stderr_thread = "running"
          /\ proc.stderr # <<>>
          /\ Goto([Top EXCEPT !.proc = Some([proc EXCEPT !.stderr = Tail(proc.stderr)])])
       \/ /\ proc.stderr_thread = "running"
          /\ proc.stderr = <<>>
          /\ proc.child = "exited"
          /\ Goto([Top EXCEPT !.proc = Some([proc EXCEPT !.stderr_thread = "ended"])])
    /\ UNCHANGED evald
    /\ Quiet

\* Apply "exec" from child.wait on: wait returns the status of the child
\* that exited, or fails; the threads are joined; a status that is no
\* success is an error; and the last line of the output is the value, parsed
\* if it can be
ExecWait ==
    /\ Running
    /\ Top.e.k = "Apply"
    /\ LET proc == Top.proc.some IN
       \/ /\ Top.pc = "wait"
          /\ proc.child = "exited"
          /\ \/ Goto([Top EXCEPT !.pc = "join_stdout"])
             \/ Return(Err("wait: no child processes"))
       \/ /\ Top.pc = "join_stdout"
          /\ proc.stdout_thread = "ended"
          /\ Goto([Top EXCEPT !.pc = "join_stderr",
                              !.proc = Some([proc EXCEPT !.stdout_thread = "joined"])])
       \/ /\ Top.pc = "join_stderr"
          /\ proc.stderr_thread \in {"none", "ended"}
          /\ Goto([Top EXCEPT !.pc = "status",
                              !.proc = Some([proc EXCEPT !.stderr_thread =
                                               IF @ = "none" THEN "none" ELSE "joined"])])
       \/ /\ Top.pc = "status"
          /\ IF proc.run.code # Some(0)
             THEN Return(Err("exec failed with status "
                             \o ToString(unwrap_or(proc.run.code, 0 - 1))))
             ELSE Return(Ok(IF parse_idl_value(proc.final_stdout).ok
                            THEN parse_idl_value(proc.final_stdout).v
                            ELSE VText(proc.final_stdout)))
    /\ UNCHANGED evald
    /\ Quiet

\* Apply "read_state" and "send" with a live agent: the arguments are
\* matched, the path or the message is parsed, and the request goes to the
\* network, which answers or fails. The bytes 123 and 91 are the braces that
\* open a message and a list of messages, and a second byte 0 stands for
\* JSON that is no message
ApplyTransport ==
    /\ At("Apply", "transport")
    /\ LET args == Top.vals
           sent(kind) == [kind |-> kind, fn |-> Top.e.func, by |-> Top.pos]
           answers(kind) ==
               /\ net' = Append(net, sent(kind))
               /\ \/ Return(Err("agent: the request failed"))
                  \/ Return(Ok(VText("r1")))
           fails(e) == Return(Err(e)) /\ UNCHANGED net
       IN IF Top.e.func = "send"
          THEN IF Len(args) # 1 \/ value_ty(args[1]) # "blob"
               THEN fails("send expects a json blob")
               ELSE LET data == IF args[1].bytes.fmt = "raw" THEN args[1].bytes.data
                                ELSE <<68>>
                    IN IF data = <<>> \/ data[1] \notin {123, 91}
                       THEN fails("not a valid json message")
                       ELSE IF Len(data) > 1 /\ data[2] = 0
                       THEN fails("serde_json: cannot parse the message")
                       ELSE answers("send")
          ELSE IF \/ (Len(args) >= 1 /\ args[1].t = "Text")
                  \/ (Len(args) >= 2 /\ args[1].t = "Principal" /\ args[2].t = "Text")
               THEN LET prefix == IF args[1].t = "Text" THEN args[1].s ELSE args[2].s
                    IN IF prefix \notin {"time", "canister", "subnet", "request_status"}
                       THEN fails("unknown state path " \o prefix)
                       ELSE answers("read_state")
               ELSE fails("read_state expects ([effective_id,] prefix, principal, path, ...)")
    /\ UNCHANGED <<env, offline, messages, sink, canister_map, evald, nevals,
                   calls_ok, calls_failed>>

\* the place of the first statement of a body among the positions under a
\* call: the statements come after the arguments
BodyBase == 100

\* apply_func, the body: the statements run in their order in the child
\* helper, a failed statement ends the call with its error, and the result
\* is the `_` of the child helper, or null
ApplyFunc ==
    /\ Running
    /\ Top.e.k = "Apply"
    /\ LET body == func_env[Top.e.func][2] IN
       \/ /\ Top.pc = "body"
          /\ IF Top.ci <= Len(body)
             THEN EvalChild([Top EXCEPT !.pc = "stmt"], body[Top.ci].e,
                            Append(Top.pos, BodyBase + Top.ci))
             ELSE /\ Return(Ok(IF "_" \in DOMAIN Top.henv.some THEN Top.henv.some["_"]
                                ELSE VNull))
                  /\ UNCHANGED evald
       \/ /\ Top.pc = "stmt"
          /\ ret # NoRet
          /\ IF ret.ok
             THEN Goto([Top EXCEPT !.pc = "body", !.ci = @ + 1,
                                   !.henv = Some((body[Top.ci].id :> ret.v) @@ Top.henv.some)])
             ELSE Return(ret)
          /\ UNCHANGED evald
    /\ Quiet

\* Exp::Apply "export": the path, then the file is created, then the
\* variables are evaluated and written in their order through a BufWriter,
\* which writes to the file when it is full and when it is dropped
EvalExport ==
    /\ IsApply("export")
    /\ \/ /\ Top.pc = "start"
          /\ IF Len(Top.e.exps) <= 1
             THEN Return(Err("export expects at least two arguments")) /\ UNCHANGED evald
             ELSE EvalChild([Top EXCEPT !.pc = "path"], Top.e.exps[1], Append(Top.pos, 1))
       \/ /\ Top.pc = "path"
          /\ ret # NoRet
          /\ \/ IF ~ret.ok THEN Return(ret)
                ELSE IF ret.v.t # "Text"
                THEN Return(Err("export expects first argument to be a file path"))
                ELSE Goto([Top EXCEPT !.pc = "vars", !.i = 2])
             \/ /\ ret.ok
                /\ ret.v.t = "Text"
                /\ Return(Err("cannot create the file"))
          /\ UNCHANGED evald
       \/ /\ Top.pc = "vars"
          /\ IF Top.i > Len(Top.e.exps) THEN Return(Ok(VNull)) /\ UNCHANGED evald
             ELSE IF Top.e.exps[Top.i].k # "Path"
             THEN Return(Err("export expects variables")) /\ UNCHANGED evald
             ELSE EvalChild([Top EXCEPT !.pc = "var"], Top.e.exps[Top.i], Append(Top.pos, Top.i))
       \/ /\ Top.pc = "var"
          /\ ret # NoRet
          /\ \/ IF ~ret.ok THEN Return(ret)
                ELSE Goto([Top EXCEPT !.pc = "vars", !.i = @ + 1])
             \/ /\ ret.ok
                /\ Return(Err("cannot write to the file"))
          /\ UNCHANGED evald
    /\ Quiet

\* the expressions of the fields of a record expression
FieldExps(fields) == [i \in 1..Len(fields) |-> fields[i].val]

\* Exp::Vec: the values of the elements, in their order
EvalVec ==
    /\ Running
    /\ Top.e.k = "Vec"
    /\ \/ /\ Top.pc = "start"
          /\ ArgLoop(Top, Top.e.es, Top.pos, "build")
       \/ /\ Top.pc = "args"
          /\ ArgReturned(Top.e.es, Top.pos, "build")
       \/ /\ Top.pc = "build"
          /\ Return(Ok(VVec(Top.vals)))
          /\ UNCHANGED evald
    /\ Quiet

\* Exp::Record: the fields as written, each with the value of its expression
EvalRecord ==
    /\ Running
    /\ Top.e.k = "Record"
    /\ \/ /\ Top.pc = "start"
          /\ ArgLoop(Top, FieldExps(Top.e.fields), Top.pos, "build")
       \/ /\ Top.pc = "args"
          /\ ArgReturned(FieldExps(Top.e.fields), Top.pos, "build")
       \/ /\ Top.pc = "build"
          /\ Return(Ok(VRecord([i \in 1..Len(Top.vals) |->
                                  IDLField(Top.e.fields[i].id, Top.vals[i])])))
          /\ UNCHANGED evald
    /\ Quiet

\* ------------------------------------------------------------------- Call

\* the readings of the instruction counter of an instrumented canister
Cycles == {100, 250}

\* a dispatch that takes a call without a signature for a query: the fault
\* C9_QueryIffSignatureSaysSo detects
IsQueryCallByDefault(opt_func) == opt_func = None \/ is_query(opt_func.some)

\* fn call: whether the call is dispatched as a query
IsQueryCall(opt_func) == opt_func # None /\ is_query(opt_func.some)

\* fn call: the envelope of a signed query
QueryMessage(signed) ==
    [ingress |-> [call_type |-> "query", request_id |-> None,
                  content |-> hex_encode(signed.signed_query)],
     request_status |-> None]

\* an envelope whose status request names the signed status request instead
\* of the request id: the fault C6_EnvelopeShape detects
UpdateMessageOtherId(signed, status) ==
    [ingress |-> [call_type |-> "update",
                  request_id |-> Some(hex_encode(signed.request_id)),
                  content |-> hex_encode(signed.signed_update)],
     request_status |-> Some([canister_id |-> status.effective_canister_id,
                              request_id |-> hex_encode(status.signed_request_status),
                              content |-> hex_encode(status.signed_request_status)])]

\* fn call: the envelope of a signed update and its status request
UpdateMessage(signed, status) ==
    [ingress |-> [call_type |-> "update",
                  request_id |-> Some(hex_encode(signed.request_id)),
                  content |-> hex_encode(signed.signed_update)],
     request_status |-> Some([canister_id |-> status.effective_canister_id,
                              request_id |-> hex_encode(status.request_id),
                              content |-> hex_encode(status.signed_request_status)])]

\* a push that enters the envelope twice: the fault
\* C5_OfflineCallLogsAndEmits detects
PushMessageTwice(msgs, message) == Append(Append(msgs, message), message)

\* a push at the front of the log: the fault C7_LogAppendOnly detects
PushMessageFront(msgs, message) == <<message>> \o msgs

\* fn call: msgs.push(message.clone())
PushMessage(msgs, message) == Append(msgs, message)

\* serde_json::to_string of an envelope: the line of its fields
to_string(message) ==
    << "call_type", message.ingress.call_type,
       "request_id", message.ingress.request_id,
       "content", message.ingress.content,
       "request_status", message.request_status >>

\* the arguments of the Call arm are evaluated in order
CallArgs ==
    /\ Running
    /\ Top.e.k = "Call"
    /\ \/ /\ Top.pc = "start"
          /\ ArgLoop(Top, Top.e.args, Top.pos, "resolve")
       \/ /\ Top.pc = "args"
          /\ ArgReturned(Top.e.args, Top.pos, "resolve")
    /\ Quiet

\* the Call arm resolves its method: opt_info
CallResolve ==
    /\ At("Call", "resolve")
    /\ IF Top.e.method = None
       THEN /\ Goto([Top EXCEPT !.pc = "encode"])
            /\ UNCHANGED <<canister_map, net>>
       ELSE \E g \in get_info(Top.e.method, Top.e.mode = "Encode", CurEnv, canister_map) :
               /\ canister_map' = g.cm
               /\ net' = net \o Fetches(g.fetched, Top.pos)
               /\ IF g.r.ok THEN Goto([Top EXCEPT !.pc = "encode", !.info = Some(g.r.v)])
                  ELSE Return(g.r)
    /\ UNCHANGED <<env, offline, messages, sink, evald, nevals, calls_ok, calls_failed>>

\* the signature the Call arm resolved, if any
CallSignature(f) == IF f.info = None THEN None ELSE f.info.some.signature

\* a mode match in which Encode of a method goes on to the call: the fault
\* C8_EncodeOnlyFetches detects
CallEncodeThenCall ==
    /\ At("Call", "encode")
    /\ LET signature == CallSignature(Top)
           bytes == IF signature # None
                    THEN to_bytes_with_types(Top.vals, signature.some.args)
                    ELSE to_bytes(Top.vals)
       IN IF ~bytes.ok THEN Return(bytes)
          ELSE IF Top.e.mode = "Encode" /\ Top.info = None THEN Return(Ok(VBlob(bytes.v)))
          ELSE Goto([Top EXCEPT !.bytes = bytes.v,
                       !.pc = IF ok_to_profile(offline, Top.info.some)
                              THEN "profile" ELSE "call"])
    /\ UNCHANGED evald
    /\ Quiet

\* the Call arm serializes the arguments and matches on the mode
CallEncode ==
    /\ At("Call", "encode")
    /\ LET signature == CallSignature(Top)
           bytes == IF signature # None
                    THEN to_bytes_with_types(Top.vals, signature.some.args)
                    ELSE to_bytes(Top.vals)
       IN IF ~bytes.ok THEN Return(bytes)
          ELSE IF Top.e.mode = "Encode" THEN Return(Ok(VBlob(bytes.v)))
          ELSE Goto([Top EXCEPT !.bytes = bytes.v,
                       !.pc = IF Top.e.mode = "Proxy" THEN "proxy"
                              ELSE IF ok_to_profile(offline, Top.info.some)
                              THEN "profile" ELSE "call"])
    /\ UNCHANGED evald
    /\ Quiet

\* CallMode::Call: the instruction counter before the call
CallProfile ==
    /\ At("Call", "profile")
    /\ net' = Append(net, GetCycles(Top.pos, Top.info.some.canister_id))
    /\ \/ Return(Err("agent: get_cycles failed"))
       \/ \E c \in Cycles : Goto([Top EXCEPT !.pc = "call", !.before_cost = c])
    /\ UNCHANGED <<env, offline, messages, sink, canister_map, evald, nevals,
                   calls_ok, calls_failed>>

\* fn call in offline mode: the request is signed and pushed on the log
CallOfflineSign ==
    /\ At("Call", "call")
    /\ offline
    /\ LET info == Top.info.some
           method == Top.e.method.method
           effective_id == get_effective_canister_id(info.canister_id, method, Top.bytes)
       IN IF ~effective_id.ok
          THEN /\ Return(effective_id)
               /\ calls_failed' = TRUE
               /\ UNCHANGED messages
          ELSE IF IsQueryCall(info.signature)
          THEN \E signed \in SignQuery(method) :
                  IF ~signed.ok
                  THEN /\ Return(signed)
                       /\ calls_failed' = TRUE
                       /\ UNCHANGED messages
                  ELSE /\ messages' = PushMessage(messages, QueryMessage(signed.v))
                       /\ Goto([Top EXCEPT !.pc = "output",
                                           !.msg = Some(QueryMessage(signed.v))])
                       /\ UNCHANGED calls_failed
          ELSE \E signed \in SignUpdate(method) :
                  IF ~signed.ok
                  THEN /\ Return(signed)
                       /\ calls_failed' = TRUE
                       /\ UNCHANGED messages
                  ELSE \E status \in sign_request_status(unwrap_or(effective_id.v, default_effective_canister_id),
                                                         signed.v.request_id) :
                         IF ~status.ok
                         THEN /\ Return(status)
                              /\ calls_failed' = TRUE
                              /\ UNCHANGED messages
                         ELSE /\ messages' = PushMessage(messages,
                                                UpdateMessage(signed.v, status.v))
                              /\ Goto([Top EXCEPT !.pc = "output",
                                         !.msg = Some(UpdateMessage(signed.v, status.v))])
                              /\ UNCHANGED calls_failed
    /\ UNCHANGED <<env, offline, sink, canister_map, net, evald, nevals, calls_ok>>

\* an output that takes the envelope out of the log again when the write
\* fails: the fault C25_OfflineFailuresAndOrder detects
CallOfflineOutputRollsBack ==
    /\ At("Call", "output")
    /\ \/ /\ sink' = Append(sink, to_string(Top.msg.some))
          /\ Goto([Top EXCEPT !.pc = "after", !.res = <<>>])
          /\ calls_ok' = calls_ok + 1
          /\ UNCHANGED <<calls_failed, messages>>
       \/ /\ Return(Err("cannot write to the offline output"))
          /\ calls_failed' = TRUE
          /\ messages' = SubSeq(messages, 1, Len(messages) - 1)
          /\ UNCHANGED <<sink, calls_ok>>
    /\ UNCHANGED <<env, offline, canister_map, net, evald, nevals>>

\* fn call in offline mode: output_message writes the envelope to the sink,
\* or fails, and the call returns
CallOfflineOutput ==
    /\ At("Call", "output")
    /\ \/ /\ sink' = Append(sink, to_string(Top.msg.some))
          /\ Goto([Top EXCEPT !.pc = "after", !.res = <<>>])
          /\ calls_ok' = calls_ok + 1
          /\ UNCHANGED calls_failed
       \/ /\ Return(Err("cannot write to the offline output"))
          /\ calls_failed' = TRUE
          /\ UNCHANGED <<sink, calls_ok>>
    /\ UNCHANGED <<env, offline, messages, canister_map, net, evald, nevals>>

\* fn call with a live agent: the query or the update goes to the network
CallSend ==
    /\ At("Call", "call")
    /\ ~offline
    /\ LET info == Top.info.some
           method == Top.e.method.method
           effective_id == get_effective_canister_id(info.canister_id, method, Top.bytes)
       IN IF ~effective_id.ok
          THEN Return(effective_id) /\ UNCHANGED net
          ELSE /\ net' = Append(net,
                      Request(IF IsQueryCall(info.signature) THEN "query" ELSE "update",
                              "call", Top.pos, info.canister_id, method, Top.bytes,
                              unwrap_or(effective_id.v, default_effective_canister_id)))
               /\ Goto([Top EXCEPT !.pc = "await"])
    /\ UNCHANGED <<env, offline, messages, sink, canister_map, evald, nevals,
                   calls_ok, calls_failed>>

\* the answer to a call decoded with the signature, or without one
DecodeReply(bytes, signature) ==
    IF signature # None THEN from_bytes_with_types(bytes, signature.some.rets)
    ELSE from_bytes(bytes)

\* fn call with a live agent: the agent fails, or the answer is decoded
CallRecv ==
    /\ At("Call", "await")
    /\ \/ Return(Err("agent: the call failed"))
       \/ \E bytes \in Replies(Top.e.method.method) :
            LET res == DecodeReply(bytes, Top.info.some.signature)
            IN IF res.ok THEN Goto([Top EXCEPT !.pc = "after", !.res = res.v])
               ELSE Return(res)
    /\ UNCHANGED evald
    /\ Quiet

\* CallMode::Call after fn call returned Ok: the cost of a profiled call
\* joins the result
CallAfter ==
    /\ At("Call", "after")
    /\ IF ok_to_profile(offline, Top.info.some)
       THEN /\ net' = Append(net, GetCycles(Top.pos, Top.info.some.canister_id))
            /\ \/ Return(Err("agent: get_cycles failed"))
               \/ \E c \in { x \in Cycles : x >= Top.before_cost } :
                     Return(Ok(args_to_value(
                         << args_to_value(Top.res),
                            VRecord(<<IDLField(LabelNamed("__cost"), VInt64(c - Top.before_cost))>>) >>)))
       ELSE /\ Return(Ok(args_to_value(Top.res)))
            /\ UNCHANGED net
    /\ UNCHANGED <<env, offline, messages, sink, canister_map, evald, nevals,
                   calls_ok, calls_failed>>

\* ------------------------------------------------------------------ Proxy

\* utils::project: the value the selectors of path lead to in value v
RECURSIVE project(_, _)
project(v, path) ==
    IF path = <<>> THEN Ok(v)
    ELSE IF v.t = "Variant"
    THEN IF v.f.id = LabelNamed(Head(path)) THEN project(v.f.val, Tail(path))
         ELSE Err("variant field " \o Head(path) \o " not found")
    ELSE IF v.t = "Record"
    THEN LET hits == { i \in DOMAIN v.fs : v.fs[i].id = LabelNamed(Head(path)) } IN
         IF hits = {} THEN Err("record field " \o Head(path) \o " not found")
         ELSE project(v.fs[CHOOSE i \in hits : TRUE].val, Tail(path))
    ELSE Err("cannot project the value")

\* an argument of wallet_call that leaves out the argument bytes: the fault
\* C19_ProxyRelaysThenDecodes detects
wallet_call_empty(msg, method, canister) ==
    VRecord(<< IDLField(LabelNamed("args"), VBlob(RawBytes(<<>>))),
               IDLField(LabelNamed("cycles"), VNumber(<<"0">>)),
               IDLField(LabelNamed("method_name"), VText(method)),
               IDLField(LabelNamed("canister"), VPrincipal(canister)) >>)

\* the record the script of the Proxy mode passes to wallet_call
wallet_call_args(msg, method, canister) ==
    VRecord(<< IDLField(LabelNamed("args"), msg),
               IDLField(LabelNamed("cycles"), VNumber(<<"0">>)),
               IDLField(LabelNamed("method_name"), VText(method)),
               IDLField(LabelNamed("canister"), VPrincipal(canister)) >>)

\* CallMode::Proxy: the child helper, which has the interface of the relay
\* from the cache of its parent and the argument bytes in _msg
ProxySpawn ==
    /\ At("Call", "proxy")
    /\ LET canister_id == str_to_principal(Top.e.method.canister, CurEnv)
           proxy_id == str_to_principal(Top.e.proxy, CurEnv)
       IN IF ~canister_id.ok THEN Return(canister_id)
          ELSE IF ~proxy_id.ok THEN Return(proxy_id)
          ELSE IF proxy_id.v \notin DOMAIN canister_map
          THEN Return(Err(proxy_id.v \o " canister interface not found"))
          ELSE Goto([Top EXCEPT !.pc = "relay",
                                !.henv = Some("_msg" :> VBlob(Top.bytes)),
                                !.hmap = proxy_id.v :> canister_map[proxy_id.v],
                                !.hlog = <<>>,
                                !.hids = <<canister_id.v, proxy_id.v>>])
    /\ UNCHANGED evald
    /\ Quiet

\* the signature of wallet_call in the cache of the child helper
RelaySignature(f) ==
    IF "wallet_call" \in DOMAIN f.hmap[f.hids[2]].methods
    THEN Some(f.hmap[f.hids[2]].methods["wallet_call"])
    ELSE None

\* the first statement of the script, let _ = call "proxy_id".wallet_call(..),
\* up to the call: offline the request is signed, logged by the child and
\* written out, and _ is the empty answer; live the update goes to the network
ProxyRelay ==
    /\ At("Call", "relay")
    /\ LET arg == wallet_call_args(Top.henv.some["_msg"], Top.e.method.method, Top.hids[1])
           signature == RelaySignature(Top)
           bytes == IF signature # None
                    THEN to_bytes_with_types(<<arg>>, signature.some.args)
                    ELSE to_bytes(<<arg>>)
           effective_id == get_effective_canister_id(Top.hids[2], "wallet_call", bytes.v)
       IN IF ~bytes.ok
          THEN /\ Return(bytes)
               /\ UNCHANGED <<sink, net, calls_ok, calls_failed>>
          ELSE IF ~offline
          THEN /\ net' = Append(net,
                      Request("update", "call", Top.pos, Top.hids[2], "wallet_call", bytes.v,
                              unwrap_or(effective_id.v, default_effective_canister_id)))
               /\ Goto([Top EXCEPT !.pc = "relayed"])
               /\ UNCHANGED <<sink, calls_ok, calls_failed>>
          ELSE \E signed \in SignUpdate("wallet_call") :
                  IF ~signed.ok
                  THEN /\ Return(signed)
                       /\ calls_failed' = TRUE
                       /\ UNCHANGED <<sink, net, calls_ok>>
                  ELSE \E status \in sign_request_status(
                                         unwrap_or(effective_id.v, default_effective_canister_id),
                                         signed.v.request_id) :
                         IF ~status.ok
                         THEN /\ Return(status)
                              /\ calls_failed' = TRUE
                              /\ UNCHANGED <<sink, net, calls_ok>>
                         ELSE \/ /\ sink' = Append(sink, to_string(UpdateMessage(signed.v, status.v)))
                                 /\ Goto([Top EXCEPT
                                       !.pc = "decode",
                                       !.hlog = PushMessage(Top.hlog, UpdateMessage(signed.v, status.v)),
                                       !.henv = Some(("_" :> args_to_value(<<>>)) @@ Top.henv.some)])
                                 /\ calls_ok' = calls_ok + 1
                                 /\ UNCHANGED <<net, calls_failed>>
                              \/ /\ Return(Err("cannot write to the offline output"))
                                 /\ calls_failed' = TRUE
                                 /\ UNCHANGED <<sink, net, calls_ok>>
    /\ UNCHANGED <<env, offline, messages, canister_map, evald, nevals>>

\* the first statement of the script, from the answer of the relay on: the
\* agent fails, or the answer is decoded as wallet_call returns it and bound
\* to _ in the child helper
ProxyReply ==
    /\ At("Call", "relayed")
    /\ \/ Return(Err("agent: the call failed"))
       \/ \E bytes \in Replies("wallet_call") :
            LET res == DecodeReply(bytes, RelaySignature(Top))
            IN IF res.ok
               THEN Goto([Top EXCEPT !.pc = "decode",
                            !.henv = Some(("_" :> args_to_value(res.v)) @@ Top.henv.some)])
               ELSE Return(res)
    /\ UNCHANGED evald
    /\ Quiet

\* the signature of method in the interface cache cm, if cm has the canister
\* and its interface the method
SignatureIn(cm, canister_id, method) ==
    IF canister_id \in DOMAIN cm /\ method \in DOMAIN cm[canister_id].methods
    THEN Some(cm[canister_id].methods[method])
    ELSE None

\* the second statement of the script,
\* let _ = decode as "canister_id".method _.Ok.return, and the value of the
\* Proxy mode, which is _ of the child helper
ProxyDecode ==
    /\ Running
    /\ Top.e.k = "Call"
    /\ \/ /\ Top.pc = "decode"
          /\ LET blob == project(Top.henv.some["_"], <<"Ok", "return">>) IN
             IF ~blob.ok
             THEN Return(blob) /\ UNCHANGED net
             ELSE IF value_ty(blob.v) # "blob"
             THEN Return(Err("not a blob")) /\ UNCHANGED net
             ELSE \E g \in get_info(Method(Top.hids[1], Top.e.method.method), FALSE,
                                    Top.henv.some, Top.hmap) :
                     /\ net' = net \o Fetches(g.fetched, Top.pos)
                     /\ IF ~g.r.ok THEN Return(g.r)
                        ELSE LET args == DecodeReply(blob.v.bytes, g.r.v.signature) IN
                             IF ~args.ok THEN Return(args)
                             ELSE Goto([Top EXCEPT
                                     !.pc = "yield",
                                     !.hmap = g.cm,
                                     !.henv = Some(("_" :> args_to_value(args.v))
                                                   @@ Top.henv.some)])
       \/ /\ Top.pc = "yield"
          /\ Return(Ok(Top.henv.some["_"]))
          /\ UNCHANGED net
    /\ UNCHANGED <<env, offline, messages, sink, canister_map, evald, nevals,
                   calls_ok, calls_failed>>

\* ---------------------------------------------------------------- ParCall

\* the worker threads of the runtime parallel_calls builds
worker_threads == 10

\* a future that is sent off when it is built: the fault
\* C4_PreparationBeforeCalls detects
CallFutureEager(info, method, bytes, effective_id) ==
    [canister_id |-> info.canister_id, method |-> method, arg |-> bytes,
     effective_id |-> effective_id, signature |-> info.signature,
     st |-> "inflight", out |-> None]

\* the call_future of a ParCall entry: the update it will issue and the
\* signature its answer is decoded with; st is created (not polled yet),
\* inflight, ok or err, and out what it resolved to
CallFuture(info, method, bytes, effective_id) ==
    [canister_id |-> info.canister_id, method |-> method, arg |-> bytes,
     effective_id |-> effective_id, signature |-> info.signature,
     st |-> "created", out |-> None]

\* the arguments of the next ParCall entry are evaluated in order; after the
\* last entry parallel_calls is called
ParCallArgs ==
    /\ Running
    /\ Top.e.k = "ParCall"
    /\ \/ /\ Top.pc = "start"
          /\ IF Top.ci > Len(Top.e.calls)
             THEN Goto([Top EXCEPT !.pc = "join"]) /\ UNCHANGED evald
             ELSE ArgLoop(Top, Top.e.calls[Top.ci].args, Append(Top.pos, Top.ci), "resolve")
       \/ /\ Top.pc = "args"
          /\ ArgReturned(Top.e.calls[Top.ci].args, Append(Top.pos, Top.ci), "resolve")
    /\ Quiet

\* a push that enters the future twice: the fault C3_InFlightWithinBatch detects
PushFutureTwice(futs, fut) == Append(Append(futs, fut), fut)

\* futures.push(call_future)
PushFuture(futs, fut) == Append(futs, fut)

\* a ParCall entry is resolved and encoded, and its future joins futures
ParCallBuild ==
    /\ At("ParCall", "resolve")
    /\ \E g \in get_info(Top.e.calls[Top.ci].method, FALSE, CurEnv, canister_map) :
          /\ canister_map' = g.cm
          /\ net' = net \o Fetches(g.fetched, Top.pos)
          /\ IF ~g.r.ok THEN Return(g.r)
             ELSE LET info == g.r.v
                      method == Top.e.calls[Top.ci].method.method
                      bytes == IF info.signature # None
                               THEN to_bytes_with_types(Top.vals, info.signature.some.args)
                               ELSE to_bytes(Top.vals)
                      effective_id ==
                          get_effective_canister_id(info.canister_id, method, bytes.v)
                  IN IF ~bytes.ok THEN Return(bytes)
                     ELSE IF ~effective_id.ok THEN Return(effective_id)
                     ELSE Goto([Top EXCEPT
                            !.pc = "start", !.ci = @ + 1, !.i = 1, !.vals = <<>>,
                            !.futs = PushFuture(@, CallFuture(info, method, bytes.v,
                                unwrap_or(effective_id.v, default_effective_canister_id)))])
    /\ UNCHANGED <<env, offline, messages, sink, evald, nevals, calls_ok, calls_failed>>

\* a join that hands the outputs back in the reverse of the order of the
\* futures: the fault C1_ResultsInSubmissionOrder detects
try_join_all_reversed(futs) ==
    IF \E i \in 1..Len(futs) : futs[i].st = "err"
    THEN Some(Err(futs[CHOOSE i \in 1..Len(futs) :
                         /\ futs[i].st = "err"
                         /\ \A j \in 1..(i - 1) : futs[j].st # "err"].out))
    ELSE IF \A i \in 1..Len(futs) : futs[i].st = "ok"
    THEN Some(Ok([i \in 1..Len(futs) |-> futs[Len(futs) + 1 - i].out]))
    ELSE None

\* a join that waits for every future and reports the error of the last
\* future that failed: the fault C2_FirstFailureIsTheResult detects
try_join_all_last(futs) ==
    IF \E i \in 1..Len(futs) : futs[i].st \in {"created", "inflight"} THEN None
    ELSE IF \E i \in 1..Len(futs) : futs[i].st = "err"
    THEN Some(Err(futs[CHOOSE i \in 1..Len(futs) :
                         /\ futs[i].st = "err"
                         /\ \A j \in (i + 1)..Len(futs) : futs[j].st # "err"].out))
    ELSE Some(Ok([i \in 1..Len(futs) |-> futs[i].out]))

\* a join that is pending until every future has an outcome and then reports
\* the first error: the fault C22_FailureAbandonsSiblings detects
try_join_all_settled(futs) ==
    IF \E i \in 1..Len(futs) : futs[i].st \in {"created", "inflight"} THEN None
    ELSE IF \E i \in 1..Len(futs) : futs[i].st = "err"
    THEN Some(Err(futs[CHOOSE i \in 1..Len(futs) :
                         /\ futs[i].st = "err"
                         /\ \A j \in 1..(i - 1) : futs[j].st # "err"].out))
    ELSE Some(Ok([i \in 1..Len(futs) |-> futs[i].out]))

\* futures try_join_all: Some error as soon as a future failed, Some vector of
\* the outputs in the order of the futures once all succeeded, None while
\* it is pending
try_join_all(futs) ==
    IF \E i \in 1..Len(futs) : futs[i].st = "err"
    THEN Some(Err(futs[CHOOSE i \in 1..Len(futs) :
                         /\ futs[i].st = "err"
                         /\ \A j \in 1..(i - 1) : futs[j].st # "err"].out))
    ELSE IF \A i \in 1..Len(futs) : futs[i].st = "ok"
    THEN Some(Ok([i \in 1..Len(futs) |-> futs[i].out]))
    ELSE None

\* future i of the batch resolved to out
Resolved(f, i, st, out) ==
    [f EXCEPT !.futs[i].st = st, !.futs[i].out = out,
              !.failed = IF st = "err" THEN Append(@, i) ELSE @,
              !.overtaken = @ \/ \E j \in 1..(i - 1) : f.futs[j].st = "inflight"]

\* a poll that dispatches as fn call does, a query when the signature says
\* so: the fault C21_ParCallIssuesLiveUpdates detects
ParPollBySignature ==
    /\ At("ParCall", "join")
    /\ try_join_all(Top.futs) = None
    /\ \E i \in 1..Len(Top.futs) :
          /\ Top.futs[i].st = "created"
          /\ \A j \in 1..(i - 1) : Top.futs[j].st # "created"
          /\ \/ /\ Goto(Resolved(Top, i, "err", "agent: cannot sign the request"))
                /\ UNCHANGED net
             \/ /\ net' = Append(net,
                      Request(IF IsQueryCall(Top.futs[i].signature) THEN "query" ELSE "update",
                              "parallel_calls", Top.pos,
                              Top.futs[i].canister_id, Top.futs[i].method,
                              Top.futs[i].arg, Top.futs[i].effective_id))
                /\ Goto([Top EXCEPT !.futs[i].st = "inflight"])
    /\ UNCHANGED <<env, offline, messages, sink, canister_map, evald, nevals,
                   calls_ok, calls_failed>>

\* parallel_calls: the first poll of try_join_all polls the futures in
\* order; a future fails before it sends anything, or its update goes to
\* the network
ParPoll ==
    /\ At("ParCall", "join")
    /\ try_join_all(Top.futs) = None
    /\ \E i \in 1..Len(Top.futs) :
          /\ Top.futs[i].st = "created"
          /\ \A j \in 1..(i - 1) : Top.futs[j].st # "created"
          /\ \/ /\ Goto(Resolved(Top, i, "err", "agent: cannot sign the request"))
                /\ UNCHANGED net
             \/ /\ net' = Append(net,
                      Request("update", "parallel_calls", Top.pos,
                              Top.futs[i].canister_id, Top.futs[i].method,
                              Top.futs[i].arg, Top.futs[i].effective_id))
                /\ Goto([Top EXCEPT !.futs[i].st = "inflight"])
    /\ UNCHANGED <<env, offline, messages, sink, canister_map, evald, nevals,
                   calls_ok, calls_failed>>

\* parallel_calls: a call in flight completes: the agent fails, or the
\* answer is decoded
ParComplete ==
    /\ At("ParCall", "join")
    /\ try_join_all(Top.futs) = None
    /\ \A j \in 1..Len(Top.futs) : Top.futs[j].st # "created"
    /\ \E i \in 1..Len(Top.futs) :
          /\ Top.futs[i].st = "inflight"
          /\ \/ Goto(Resolved(Top, i, "err", "agent: the call failed"))
             \/ \E bytes \in Replies(Top.futs[i].method) :
                  LET res == DecodeReply(bytes, Top.futs[i].signature)
                  IN Goto(Resolved(Top, i, IF res.ok THEN "ok" ELSE "err",
                                   IF res.ok THEN res.v ELSE res.e))
    /\ UNCHANGED evald
    /\ Quiet

\* parallel_calls returns what try_join_all resolved to, and the ParCall arm
\* wraps the results
ParReturn ==
    /\ At("ParCall", "join")
    /\ try_join_all(Top.futs) # None
    /\ LET res == try_join_all(Top.futs).some
       IN IF ~res.ok THEN Return(res)
          ELSE Return(Ok(args_to_value([i \in 1..Len(res.v) |-> args_to_value(res.v[i])])))
    /\ UNCHANGED evald
    /\ Quiet

\* ----------------------------------------------------------------- Decode

\* Exp::Decode
EvalDecode ==
    /\ Running
    /\ Top.e.k = "Decode"
    /\ \/ /\ Top.pc = "start"
          /\ EvalChild([Top EXCEPT !.pc = "blob"], Top.e.blob, Append(Top.pos, 1))
          /\ UNCHANGED <<canister_map, net>>
       \/ /\ Top.pc = "blob"
          /\ ret # NoRet
          /\ IF ~ret.ok THEN Return(ret)
             ELSE IF value_ty(ret.v) # "blob" THEN Return(Err("not a blob"))
             ELSE Goto([Top EXCEPT !.pc = "resolve", !.bytes = ret.v.bytes])
          /\ UNCHANGED <<canister_map, net, evald>>
       \/ /\ Top.pc = "resolve"
          /\ IF Top.e.method = None
             THEN /\ LET args == from_bytes(Top.bytes)
                     IN Return(IF args.ok THEN Ok(args_to_value(args.v)) ELSE args)
                  /\ UNCHANGED <<canister_map, net>>
             ELSE \E g \in get_info(Top.e.method, FALSE, CurEnv, canister_map) :
                     /\ canister_map' = g.cm
                     /\ net' = net \o Fetches(g.fetched, Top.pos)
                     /\ IF ~g.r.ok THEN Return(g.r)
                        ELSE LET args == DecodeReply(Top.bytes, g.r.v.signature)
                             IN Return(IF args.ok THEN Ok(args_to_value(args.v)) ELSE args)
          /\ UNCHANGED evald
    /\ UNCHANGED <<env, offline, messages, sink, nevals, calls_ok, calls_failed>>

\* ------------------------------------------------------------ the scripts

Get1 == Method("c1", "get")

Put1 == Method("c1", "put")

Foo2 == Method("c2", "foo")

Ping2 == Method("c2", "ping")

\* the expressions a script may evaluate
Programs ==
    LET
        \* the expressions that make no call
        Pure == { Bool(TRUE), Bool(FALSE), Text("a"), Path("x"), Path("undefined") }

        \* the calls of a script: a query, updates with and without a signature, a
        \* composite query, a method the interface lacks, an alias that is not bound,
        \* an argument of the wrong type, an argument that fails, an argument that
        \* is itself a call
        Calls ==
            { Call(Get1, <<>>, "Call"),
              Call(Put1, <<Text("a")>>, "Call"),
              Call(Foo2, <<Text("a")>>, "Call"),
              Call(Method("c1", "cq"), <<>>, "Call"),
              Call(Method("c1", "absent"), <<>>, "Call"),
              Call(Method("nobody", "get"), <<>>, "Call"),
              Call(Put1, <<Bool(TRUE)>>, "Call"),
              Call(Put1, <<Text("a"), Path("undefined")>>, "Call"),
              Call(Foo2, <<Call(Get1, <<>>, "Call")>>, "Call") }

        \* the encode expressions of a script
        Encodes ==
            { Call(Put1, <<Text("a")>>, "Encode"),
              Call(Get1, <<Text("a")>>, "Encode"),
              Call(Foo2, <<Text("a"), Bool(TRUE)>>, "Encode"),
              Call(None, <<Text("a")>>, "Encode"),
              Call(Method("w", "__init_args"), <<Text("a")>>, "Encode"),
              Call(Method("v", "__init_args"), <<Text("a")>>, "Encode"),
              Call(Method("c1", "__init_args"), <<Text("a")>>, "Encode"),
              Call(Method("nobody", "get"), <<>>, "Encode"),
              Call(Put1, <<Path("undefined")>>, "Encode"),
              Call(Foo2, <<Call(Put1, <<Text("a")>>, "Call")>>, "Encode") }

        \* the batches of a script
        ParCalls ==
            { ParCall(<<>>),
              ParCall(<<FuncCall(Put1, <<Text("a")>>), FuncCall(Get1, <<>>)>>),
              ParCall(<<FuncCall(Get1, <<>>), FuncCall(Foo2, <<Text("a")>>),
                        FuncCall(Put1, <<Text("a")>>)>>),
              ParCall(<<FuncCall(Put1, <<Text("a")>>), FuncCall(Put1, <<Path("undefined")>>)>>),
              ParCall(<<FuncCall(Get1, <<>>), FuncCall(Put1, <<Bool(TRUE)>>)>>),
              ParCall(<<FuncCall(Get1, <<>>), FuncCall(Method("nobody", "get"), <<>>)>>),
              ParCall(<<FuncCall(Foo2, <<Call(Put1, <<Text("a")>>, "Call")>>),
                        FuncCall(Get1, <<>>)>>) }

        \* the decode expressions of a script
        Decodes ==
            { Decode(Get1, Call(None, <<Text("a")>>, "Encode")),
              Decode(None, Blob(RawBytes(<<1>>))),
              Decode(Foo2, Text("a")),
              Decode(Method("nobody", "get"), Call(None, <<>>, "Encode")),
              Decode(Put1, Path("undefined")) }

        \* the conditions and the branches of the conditionals of a script
        Conds == { Bool(TRUE), Bool(FALSE), Text("a"), Path("undefined"),
                   Apply("not", <<Bool(TRUE)>>) }

        Branches == { Text("a"), Path("undefined"), Call(Put1, <<Text("a")>>, "Call") }

        Ites == { Apply("ite", <<c, a, b>>) : c \in Conds, a \in Branches, b \in Branches }
                \cup { Apply("ite", <<Bool(TRUE), Text("a")>>) }

        \* the other applications of a script
        Applies ==
            { Apply("exist", <<e>>) : e \in Branches }
            \cup { Fail(e) : e \in Branches }
            \cup { Apply("exist", <<>>),
                   Apply("not", <<Text("a")>>),
                   Apply("and", <<Bool(TRUE), Apply("not", <<Bool(TRUE)>>)>>),
                   Apply("or", <<Path("undefined"), Call(Put1, <<Text("a")>>, "Call")>>),
                   Apply("eq", <<Text("a"), Path("x")>>),
                   Apply("neq", <<Text("a"), Bool(TRUE)>>),
                   Apply("eq", <<Text("a")>>),
                   Apply("unknown", <<Text("a")>>) }

        \* the vectors, records and exports of a script: with an element that is a
        \* call, with one that fails before the last, and exports of too few
        \* arguments, of a path that is no text and of something that is no variable
        Builds ==
            { Vec(<<Text("a"), Path("undefined"), Call(Put1, <<Text("a")>>, "Call")>>),
              Vec(<<Call(Get1, <<>>, "Call"), Path("x")>>),
              Record(<<Field(LabelNamed("b"), Path("x")), Field(LabelNamed("a"), Text("a"))>>),
              Record(<<Field(LabelNamed("a"), Path("undefined")),
                       Field(LabelNamed("b"), Call(Get1, <<>>, "Call"))>>),
              Apply("export", <<Text("f"), Path("x"), Path("c1")>>),
              Apply("export", <<Text("f"), Path("x"), Path("undefined"), Path("c1")>>),
              Apply("export", <<Text("f"), Text("a")>>),
              Apply("export", <<Bool(TRUE), Path("x")>>),
              Apply("export", <<Text("f")>>) }
    IN Pure \cup Calls \cup Encodes \cup ParCalls \cup Decodes \cup Ites \cup Applies \cup Builds

\* ---------------------------------------------------------- specification

\* the helper before the first evaluation of a script whose variables are e
InitOf(e) ==
    /\ stack = <<>>
    /\ ret = NoRet
    /\ env = e
    /\ offline \in BOOLEAN
    /\ messages = <<>>
    /\ sink = <<>>
    /\ canister_map = <<>>
    /\ net = <<>>
    /\ evald = <<>>
    /\ nevals = 0
    /\ calls_ok = 0
    /\ calls_failed = FALSE

Init == InitOf(InitEnv)

\* a batch of one call more than the runtime has worker threads
PoolBatch == ParCall([i \in 1..(worker_threads + 1) |-> FuncCall(Ping2, <<>>)])

\* the script evaluates its next expression, one of progs
StartOf(progs) ==
    /\ ~Running
    /\ ~IsPanic(ret)
    /\ nevals < MaxEvals
    /\ \E e \in progs : stack' = << Frame(e, <<>>) >>
    /\ ret' = NoRet
    /\ evald' = << <<>> >>
    /\ net' = <<>>
    /\ nevals' = nevals + 1
    /\ UNCHANGED <<env, offline, messages, sink, canister_map, calls_ok, calls_failed>>

Next ==
    \/ StartOf(Programs)
    \/ EvalLit
    \/ EvalPath
    \/ EvalFail
    \/ EvalIte
    \/ EvalExist
    \/ EvalApply
    \/ EvalExport
    \/ EvalVec
    \/ EvalRecord
    \/ CallArgs
    \/ CallResolve
    \/ CallEncode
    \/ CallProfile
    \/ CallOfflineSign
    \/ CallOfflineOutput
    \/ CallSend
    \/ CallRecv
    \/ CallAfter
    \/ ParCallArgs
    \/ ParCallBuild
    \/ ParPoll
    \/ ParComplete
    \/ ParReturn
    \/ EvalDecode

Spec == Init /\ [][Next]_vars

\* the scripts that evaluate the batch PoolBatch
NextPool ==
    \/ StartOf({PoolBatch})
    \/ ParCallArgs
    \/ ParCallBuild
    \/ ParPoll
    \/ ParComplete
    \/ ParReturn

SpecPool == Init /\ [][NextPool]_vars

\* a call that caches the interface of the wallet, and calls through the
\* wallet, through a canister that serves no interface and through a name
\* that is no canister, of methods whose interface can and cannot be had
ProxyPrograms ==
    { Call(Method("wallet", "wallet_receive"), <<>>, "Encode"),
      ProxyCall(Put1, <<Text("a")>>, "wallet"),
      ProxyCall(Get1, <<>>, "wallet"),
      ProxyCall(Foo2, <<Text("a")>>, "wallet"),
      ProxyCall(Put1, <<Number(<<"7">>)>>, "wallet"),
      ProxyCall(Put1, <<Text("a")>>, "c2"),
      ProxyCall(Put1, <<Text("a")>>, "nobody"),
      ProxyCall(Method("nobody", "put"), <<Text("a")>>, "wallet") }

\* the scripts that call through a relay
NextProxy ==
    \/ StartOf(ProxyPrograms)
    \/ EvalLit
    \/ CallArgs
    \/ CallResolve
    \/ CallEncode
    \/ ProxySpawn
    \/ ProxyRelay
    \/ ProxyReply
    \/ ProxyDecode

SpecProxy == Init /\ [][NextProxy]_vars

\* the uses of exec: of a command alone, with an argument, with the options
\* silence and cwd, with options that are no boolean and no text, with
\* options before the last argument, and without a command
ExecPrograms ==
    LET Options(name, val) == Record(<<Field(LabelNamed(name), val)>>) IN
    { Apply("exec", <<Text("cmd")>>),
      Apply("exec", <<Text("cmd"), Text("arg")>>),
      Apply("exec", <<Text("cmd"), Text("arg"), Options("silence", Bool(TRUE))>>),
      Apply("exec", <<Text("cmd"), Options("silence", Bool(FALSE))>>),
      Apply("exec", <<Text("cmd"), Options("cwd", Text("dir"))>>),
      Apply("exec", <<Text("cmd"), Options("silence", Text("yes"))>>),
      Apply("exec", <<Text("cmd"), Options("cwd", Bool(TRUE))>>),
      Apply("exec", <<Text("cmd"), Options("silence", Bool(TRUE)), Text("arg")>>),
      Apply("exec", <<Text("cmd"), Bool(TRUE)>>),
      Apply("exec", <<Bool(TRUE)>>),
      Apply("exec", <<>>) }

\* the scripts that run commands
NextExec ==
    \/ StartOf(ExecPrograms)
    \/ EvalLit
    \/ EvalRecord
    \/ EvalApply
    \/ ExecSpawn
    \/ ExecChild
    \/ ExecReaders
    \/ ExecWait

SpecExec == Init /\ [][NextExec]_vars

\* the expressions of the value algebra: concat of two record expressions
\* of at most MaxFields fields, whose labels are names and the number that is
\* the id of the name a; the arithmetic builtins on number literals, one of
\* them with a leading zero, on floats and on a text; and other uses of
\* concat and the comparisons
AlgPrograms ==
    LET Labels == { LabelNamed("a"), LabelNamed("b"), LabelNamed("c"), LabelId(97) }
        RecordsOf(val) ==
            { Record([i \in DOMAIN ls |-> Field(ls[i], val)]) :
                ls \in UNION { [1..n -> Labels] : n \in 0..MaxFields } }
        Operands ==
            { Number(<<"7">>), Number(<<"-", "7">>), Number(<<"2">>),
              Number(<<"-", "2">>), Number(<<"0">>), Number(<<"0", "1", "2">>),
              Float64([n |-> 1, d |-> 2]), Float64([n |-> 0 - 2, d |-> 1]),
              Float64([n |-> 0, d |-> 1]), Text("a") }
    IN { Apply("concat", <<r1, r2>>) :
            r1 \in RecordsOf(Text("l")), r2 \in RecordsOf(Text("r")) }
       \cup { Apply(f, <<x, y>>) :
                 f \in {"add", "sub", "mul", "div"}, x \in Operands, y \in Operands }
       \cup { Apply("concat", <<Text("a"), Text("b")>>),
              Apply("concat", <<Vec(<<Text("a")>>), Vec(<<Bool(TRUE), Null>>)>>),
              Apply("concat", <<Text("a"), Vec(<<>>)>>),
              Apply("concat", <<Text("a")>>),
              Apply("lt", <<Number(<<"2">>), Number(<<"7">>)>>),
              Apply("gte", <<Float64([n |-> 1, d |-> 2]), Number(<<"0">>)>>),
              Apply("add", <<Number(<<"2">>)>>),
              Apply("exist", <<Apply("div", <<Number(<<"7">>), Number(<<"0">>)>>)>>) }

\* the scripts that compute with records and numbers
NextAlg ==
    \/ StartOf(AlgPrograms)
    \/ EvalLit
    \/ EvalExist
    \/ EvalApply
    \/ EvalVec
    \/ EvalRecord

SpecAlg == Init /\ [][NextAlg]_vars

\* the calls of the functions of func_env, with as many arguments as the
\* function has formal arguments, with more, and with fewer, and the uses
\* of send and read_state on messages and paths that are and are not valid
FuncPrograms ==
    { Apply(f, args) :
        f \in DOMAIN func_env \cup {"unknown"},
        args \in { <<>>, <<Text("p")>>, <<Text("p"), Bool(TRUE)>>,
                   <<Path("x"), Path("undefined")>>,
                   <<Text("p"), Apply("id1", <<Text("q")>>)>> } }
    \cup { Apply("send", <<Blob(RawBytes(data))>>) :
             data \in { <<123, 1>>, <<91, 1>>, <<123, 0>>, <<0>> } }
    \cup { Apply("read_state", args) :
             args \in { <<>>, <<Text("time")>>, <<Text("nowhere")>>,
                        <<Path("c1"), Text("canister"), Path("c1")>>,
                        <<Bool(TRUE)>> } }

\* the scripts that call their functions
NextFunc ==
    \/ StartOf(FuncPrograms)
    \/ EvalLit
    \/ EvalPath
    \/ EvalApply
    \/ EvalVec
    \/ ApplyFunc
    \/ ApplyTransport

\* the helper of the script has or has not bound `_` so far
SpecFunc ==
    /\ InitOf(InitEnv) \/ InitOf(("_" :> VText("last")) @@ InitEnv)
    /\ [][NextFunc]_vars

\* ------------------------------------------------------------- properties

\* the activation on top returns in this step
Returns == Running /\ stack' = Rest

\* the calls of a batch that are in flight
InFlight(futs) == Cardinality({ i \in 1..Len(futs) : futs[i].st = "inflight" })

\* the requests of net that fn sent for the expression at position pos
SentBy(requests, fn, pos) ==
    { i \in 1..Len(requests) : requests[i].fn = fn /\ requests[i].by = pos }

\* the tuple of the decoded results of the futures, in their order
TupleOf(futs) ==
    [t |-> "Record",
     fs |-> [i \in 1..Len(futs) |->
                [id |-> [id |-> i - 1],
                 val |-> IF Len(futs[i].out) = 1 THEN futs[i].out[1]
                         ELSE [t |-> "Record",
                               fs |-> [j \in 1..Len(futs[i].out) |->
                                          [id |-> [id |-> j - 1], val |-> futs[i].out[j]]]]]]]

C2_FirstFailureIsTheResult ==
    [][ (At("ParCall", "join") /\ Returns
            /\ \E i \in 1..Len(Top.futs) : Top.futs[i].st = "err")
        => /\ ~ret'.ok
           /\ ret'.e = Top.futs[Top.failed[1]].out ]_vars

\* the second of three calls failed after the third succeeded, while the
\* first is in flight
C2_Witness ==
    /\ At("ParCall", "join")
    /\ Len(Top.futs) = 3
    /\ Top.futs[1].st = "inflight"
    /\ Top.futs[2].st = "err"
    /\ Top.futs[3].st = "ok"

\* C3 as the specification states it: the calls in flight are never more
\* than the worker threads
C3_InFlightWithinPool ==
    (Running /\ Top.e.k = "ParCall") => InFlight(Top.futs) <= worker_threads

\* C3: every call of a batch is sent at most once, so the calls in flight
\* are never more than the calls of the batch
C3_InFlightWithinBatch ==
    (Running /\ Top.e.k = "ParCall")
    => /\ InFlight(Top.futs) <= Len(Top.e.calls)
       /\ Cardinality(SentBy(net, "parallel_calls", Top.pos)) <= Len(Top.e.calls)

\* all the calls of a batch larger than the pool are in flight at once
C3_Witness ==
    /\ At("ParCall", "join")
    /\ Len(Top.e.calls) > worker_threads
    /\ InFlight(Top.futs) = Len(Top.e.calls)

\* the positions in evald of the arguments of the entries of the batch at pos
EntryArgs(pos) ==
    SelectSeq(evald, LAMBDA p : Len(p) = Len(pos) + 2 /\ SubSeq(p, 1, Len(pos)) = pos)

\* position p is before position q: an earlier entry, or an earlier argument
\* of the same entry
Before(p, q) ==
    LET n == Len(p) IN
    \/ p[n - 1] < q[n - 1]
    \/ p[n - 1] = q[n - 1] /\ p[n] < q[n]

\* what holds of a batch f while its entries are prepared and later
Prepared(f) ==
    /\ Len(f.futs) = f.ci - 1
    /\ \A i \in 1..Len(f.futs) : f.futs[i].method = f.e.calls[i].method.method
    /\ LET args == EntryArgs(f.pos) IN
       /\ \A i \in 1..(Len(args) - 1) : Before(args[i], args[i + 1])
       /\ \A i \in 1..Len(args) : args[i][Len(f.pos) + 1] <= f.ci
    /\ f.pc # "join" =>
          /\ \A i \in 1..Len(f.futs) : f.futs[i].st = "created"
          /\ SentBy(net, "parallel_calls", f.pos) = {}
    /\ f.pc = "join" => Len(f.futs) = Len(f.e.calls)

\* C4: the entries of a ParCall are prepared one after another in the order
\* of the batch and before any call of the batch is sent; a ParCall that
\* fails while it prepares has sent no call of the batch; and while the calls
\* are in flight neither the interface cache nor the message log changes
C4_PreparationBeforeCalls ==
    /\ [](\A k \in 1..Len(stack) : stack[k].e.k = "ParCall" => Prepared(stack[k]))
    /\ [][ (Running /\ Top.e.k = "ParCall" /\ Top.pc # "join" /\ Returns)
           => /\ ~ret'.ok
              /\ SentBy(net', "parallel_calls", Top.pos) = {} ]_vars
    /\ [][ At("ParCall", "join") => UNCHANGED <<canister_map, messages>> ]_vars

\* a batch whose first entry has a call as its argument and whose
\* preparation filled the interface cache has its two calls in flight
C4_Witness ==
    /\ At("ParCall", "join")
    /\ Len(Top.futs) = 2
    /\ InFlight(Top.futs) = 2
    /\ canister_map # <<>>
    /\ Len(EntryArgs(Top.pos)) = 1

\* the lines the sink gets for the envelopes msgs
Lines(msgs) == [i \in 1..Len(msgs) |-> to_string(msgs[i])]

\* an offline call has pushed its envelope and not yet written it
InOutput == \E k \in 1..Len(stack) : stack[k].pc = "output"

\* the value of an empty result set
EmptyTuple == [t |-> "Record", fs |-> <<>>]

\* C5: in offline mode a Call in mode Call that succeeds appends one
\* envelope to the log, writes that envelope to the sink, returns the empty
\* result set and sends no query and no update; so while every offline call
\* succeeded the sink holds the lines of the log, one for each call, in order
C5_OfflineCallLogsAndEmits ==
    /\ [](offline => \A i \in 1..Len(net) : net[i].fn # "call")
    /\ []((offline /\ ~calls_failed)
          => /\ Len(messages) = calls_ok + (IF InOutput THEN 1 ELSE 0)
             /\ sink = Lines(SubSeq(messages, 1, calls_ok)))
    /\ [][ (offline /\ At("Call", "output") /\ ~Returns)
           => /\ sink' = Append(sink, to_string(messages[Len(messages)]))
              /\ messages' = messages
              /\ calls_ok' = calls_ok + 1
              /\ Top'.pc = "after" ]_vars
    /\ [][ (offline /\ At("Call", "after")) => (Returns /\ ret' = [ok |-> TRUE, v |-> EmptyTuple]) ]_vars

\* two evaluations of offline calls succeeded: the log holds a query and
\* then an update, and the sink their lines
C5_Witness ==
    /\ offline
    /\ ~Running
    /\ ~calls_failed
    /\ calls_ok = 2
    /\ ret = [ok |-> TRUE, v |-> EmptyTuple]
    /\ messages[1].ingress.call_type = "query"
    /\ messages[2].ingress.call_type = "update"
    /\ Len(sink) = 2

\* C6: every envelope of the log is a query or an update; a query has no
\* request id and no status request; an update has a request id and a status
\* request of that request id
C6_EnvelopeShape ==
    \A i \in 1..Len(messages) :
        LET m == messages[i] IN
        /\ m.ingress.call_type \in {"query", "update"}
        /\ m.ingress.call_type = "query"
              => m.ingress.request_id = None /\ m.request_status = None
        /\ m.ingress.call_type = "update"
              => /\ m.ingress.request_id # None
                 /\ m.request_status # None
                 /\ m.request_status.some.request_id = m.ingress.request_id.some

\* the log holds an envelope of each kind
C6_Witness ==
    /\ \E i \in 1..Len(messages) : messages[i].ingress.call_type = "query"
    /\ \E i \in 1..Len(messages) :
          /\ messages[i].ingress.call_type = "update"
          /\ messages[i].request_status.some.request_id = "ab02"

IsPrefix(s, t) == Len(s) <= Len(t) /\ SubSeq(t, 1, Len(s)) = s

\* C7: every step leaves the log as it is or appends to it, and the steps
\* that append are those of a Call in mode Call in offline mode
C7_LogAppendOnly ==
    [][ /\ IsPrefix(messages, messages')
        /\ messages' # messages
              => (offline /\ At("Call", "call") /\ Top.e.mode = "Call") ]_vars

\* after an evaluation logged an update and the next one a query, the log
\* holds both in that order
C7_Witness ==
    /\ offline
    /\ nevals = 2
    /\ Len(messages) = 2
    /\ messages[1].ingress.call_type = "update"
    /\ messages[2].ingress.call_type = "query"

\* the activation on top is a Call in mode Encode
EncodeOnTop == Running /\ Top.e.k = "Call" /\ Top.e.mode = "Encode"

\* C8 as the specification states it: a Call in mode Encode interacts with
\* the network in no way and leaves the log alone
C8_EncodeNoNetwork ==
    [][ EncodeOnTop => (net' = net /\ messages' = messages) ]_vars

\* C8: a Call in mode Encode returns the blob of its serialized arguments,
\* sends no query and no update, leaves the log and the sink alone, live and
\* offline; the one request it can send is the fetch of an interface
C8_EncodeOnlyFetches ==
    [][ EncodeOnTop
        => /\ messages' = messages
           /\ sink' = sink
           /\ IsPrefix(net, net')
           /\ \A i \in (Len(net) + 1)..Len(net') : net'[i].kind = "fetch"
           /\ (Returns /\ ret'.ok)
                 => /\ ret'.v.t = "Blob"
                    /\ ret'.v.bytes.fmt = "candid"
                    /\ ret'.v.bytes.vals = Top.vals ]_vars

\* an Encode of one argument returned its blob after it fetched an interface
C8_Witness ==
    /\ ~Running
    /\ ret # NoRet
    /\ ret.ok
    /\ ret.v.t = "Blob"
    /\ evald = << <<>>, <<1>> >>
    /\ Len(net) = 1
    /\ net[1].kind = "fetch"

Count(p) == Cardinality({ i \in 1..Len(evald) : evald[i] = p })

\* what holds of an activation f of ite on three expressions
IteEvaluated(f) ==
    /\ Count(Append(f.pos, 1)) = (IF f.pc = "start" THEN 0 ELSE 1)
    /\ Count(Append(f.pos, 2)) + Count(Append(f.pos, 3)) = (IF f.pc \in {"start", "cond"} THEN 0 ELSE 1)

\* C10: ite evaluates its condition once; on true it then evaluates its
\* second expression and never the third, on false the third and never the
\* second, and returns what that yields; on anything else it evaluates
\* neither and fails
C10_IteEvaluatesOneBranch ==
    /\ [](\A k \in 1..Len(stack) :
            (stack[k].e.k = "Apply" /\ stack[k].e.func = "ite" /\ Len(stack[k].e.exps) = 3)
            => IteEvaluated(stack[k]))
    /\ [][ (IsApply("ite") /\ Len(Top.e.exps) = 3 /\ (Top.pc # "start" => ret # NoRet))
           => CASE Top.pc = "start" ->
                     /\ evald' = Append(evald, Append(Top.pos, 1))
                     /\ Top'.e = Top.e.exps[1]
                [] Top.pc = "cond" /\ ret.ok /\ ret.v = [t |-> "Bool", b |-> TRUE] ->
                     /\ evald' = Append(evald, Append(Top.pos, 2))
                     /\ Top'.e = Top.e.exps[2]
                [] Top.pc = "cond" /\ ret.ok /\ ret.v = [t |-> "Bool", b |-> FALSE] ->
                     /\ evald' = Append(evald, Append(Top.pos, 3))
                     /\ Top'.e = Top.e.exps[3]
                [] Top.pc = "cond" /\ ~ret.ok -> Returns /\ ret' = ret /\ evald' = evald
                [] Top.pc = "cond" /\ ret.ok /\ ret.v.t # "Bool" ->
                     Returns /\ ~ret'.ok /\ evald' = evald
                [] OTHER -> Returns /\ ret' = ret /\ evald' = evald ]_vars

\* ite on true returned the value of its second expression; its third
\* expression is a variable that is not defined
C10_Witness ==
    /\ IsApply("ite")
    /\ Top.pc = "branch"
    /\ ret # NoRet
    /\ ret.ok
    /\ Top.e.exps[1] = Bool(TRUE)
    /\ Top.e.exps[3] = Path("undefined")

\* C11: exist on one expression evaluates it once and returns true when it
\* evaluated without error and false when it failed; it never fails itself
C11_ExistTellsSuccess ==
    [][ (IsApply("exist") /\ Len(Top.e.exps) = 1)
        => CASE Top.pc = "start" ->
                  /\ evald' = Append(evald, Append(Top.pos, 1))
                  /\ Top'.e = Top.e.exps[1]
             [] OTHER ->
                  ret # NoRet
                  => /\ Returns
                     /\ ret' = [ok |-> TRUE, v |-> [t |-> "Bool", b |-> ret.ok]]
                     /\ evald' = evald ]_vars

\* exist is about to return false: its expression, a call, failed
C11_Witness ==
    /\ IsApply("exist")
    /\ Top.pc = "wait"
    /\ ret # NoRet
    /\ ~ret.ok
    /\ Top.e.exps[1].k = "Call"

\* C12: Fail evaluates its expression once; when that failed, Fail returns
\* the text of the error, and when it succeeded, Fail fails; what the
\* expression did to the log, the sink and the interface cache stays
C12_FailTurnsErrorIntoText ==
    [][ (Running /\ Top.e.k = "Fail")
        => CASE Top.pc = "start" ->
                  /\ Count(Append(Top.pos, 1)) = 0
                  /\ evald' = Append(evald, Append(Top.pos, 1))
                  /\ Top'.e = Top.e.e
             [] OTHER ->
                  ret # NoRet
                  => /\ Returns
                     /\ evald' = evald
                     /\ UNCHANGED <<messages, sink, canister_map>>
                     /\ ret.ok => ~ret'.ok
                     /\ ~ret.ok => ret' = [ok |-> TRUE, v |-> [t |-> "Text", s |-> ret.e]] ]_vars

\* in the first evaluation of an offline script the call under a Fail pushed
\* its envelope on the log and then failed
C12_Witness ==
    /\ Running
    /\ Top.e.k = "Fail"
    /\ Top.pos = <<>>
    /\ Top.pc = "wait"
    /\ ret # NoRet
    /\ ~ret.ok
    /\ nevals = 1
    /\ Len(messages) = 1

\* an exist or a Fail is among the activations
Guarded == \E k \in 1..Len(stack) : stack[k].e.k = "Fail" \/ (stack[k].e.k = "Apply" /\ stack[k].e.func = "exist")

\* the activation on top was handed the error of its sub-expression and is
\* neither an exist nor a Fail
HandedError ==
    /\ Running
    /\ ret # NoRet
    /\ ~ret.ok
    /\ Top.e.k # "Fail"
    /\ ~IsApply("exist")

\* this step asked the network for the interface of a canister and did not
\* get it
FetchFailed ==
    /\ Len(net') > Len(net)
    /\ \E i \in (Len(net) + 1)..Len(net') :
          net'[i].kind = "fetch" /\ net'[i].canister_id \notin DOMAIN canister_map'

\* C13 as stated: whenever a sub-evaluation or a resolution step fails
\* outside exist and Fail, the expression fails, and so the whole evaluation
C13_EveryFailureFails ==
    /\ [][ HandedError => (Returns /\ ret' = ret) ]_vars
    /\ [][ (Running /\ ~Guarded /\ FetchFailed) => (Returns /\ ~ret'.ok) ]_vars

\* C13, amended: an expression other than exist and Fail that is handed the
\* error of a sub-expression returns that error at once and does nothing
\* else; the interface fetch is the exception among the resolution steps:
\* when it fails for a call, the call goes on without a signature
C13_ErrorsGoUp ==
    /\ [][ HandedError
           => /\ Returns
              /\ ret' = ret
              /\ UNCHANGED <<evald, net, messages, sink, canister_map>> ]_vars
    /\ [][ (At("Call", "resolve") /\ FetchFailed)
           => /\ ~Returns
              /\ Top'.info # None
              /\ Top'.info.some.signature = None ]_vars

\* a call, outside exist and Fail, is handed the error of its argument, a
\* call that went on after the fetch of its interface had failed and failed
\* later
C13_Witness ==
    /\ HandedError
    /\ ~Guarded
    /\ Top.e.k = "Call"
    /\ Top.pc = "args"
    /\ \E i \in 1..Len(net) : net[i].kind = "fetch" /\ net[i].canister_id \notin DOMAIN canister_map

\* the label ids of fields
LabelIds(fs) == { get_id(fs[i].id) : i \in 1..Len(fs) }

\* no two of the fields have labels of one id
DistinctLabels(fs) ==
    \A i, j \in 1..Len(fs) : i # j => get_id(fs[i].id) # get_id(fs[j].id)

\* the fields are in the order of their label ids, each id once
SortedById(fs) == \A i \in 1..(Len(fs) - 1) : get_id(fs[i].id) < get_id(fs[i + 1].id)

\* concat is about to be applied to two records, each of distinct labels
ConcatOfRecords ==
    /\ IsApply("concat")
    /\ Top.pc = "apply"
    /\ Len(Top.vals) = 2
    /\ \A i \in 1..2 : Top.vals[i].t = "Record" /\ DistinctLabels(Top.vals[i].fs)

\* C14: concat of two records that share no label id returns the record of
\* the fields of both in the order of their label ids; concat of two records
\* that share a label id fails
C14_ConcatSortsOrFails ==
    [][ ConcatOfRecords
        => LET f1 == Top.vals[1].fs
               f2 == Top.vals[2].fs
           IN /\ Returns
              /\ ~IsPanic(ret')
              /\ IF LabelIds(f1) \cap LabelIds(f2) = {}
                 THEN /\ ret'.ok
                      /\ ret'.v.t = "Record"
                      /\ SortedById(ret'.v.fs)
                      /\ Len(ret'.v.fs) = Len(f1) + Len(f2)
                      /\ { ret'.v.fs[i] : i \in 1..Len(ret'.v.fs) }
                            = { f1[i] : i \in 1..Len(f1) } \cup { f2[i] : i \in 1..Len(f2) }
                 ELSE ~ret'.ok ]_vars

\* concat is about to merge a record whose two fields are not in the order
\* of their ids with a record whose field goes between them
C14_Witness ==
    /\ ConcatOfRecords
    /\ Len(Top.vals[1].fs) = 2
    /\ Len(Top.vals[2].fs) = 1
    /\ get_id(Top.vals[1].fs[2].id) < get_id(Top.vals[2].fs[1].id)
    /\ get_id(Top.vals[2].fs[1].id) < get_id(Top.vals[1].fs[1].id)

\* C15 as stated: every record the evaluator returns has its fields in the
\* order of their label ids, each id once, and a record expression that
\* repeats a label fails
C15_RecordsWellFormed ==
    /\ [](ret # NoRet /\ ret.ok /\ ret.v.t = "Record" => SortedById(ret.v.fs))
    /\ [][ (At("Record", "build") /\ ~DistinctLabels(Top.e.fields)) => ~ret'.ok ]_vars

\* an arithmetic builtin is about to be applied to two values
ArithOfTwo ==
    /\ Running
    /\ Top.e.k = "Apply"
    /\ Top.e.func \in {"add", "sub", "mul", "div"}
    /\ Top.pc = "apply"
    /\ Len(Top.vals) = 2

\* whether integer r is what func makes of the integers a and b: the
\* quotient is the integer that leaves a remainder smaller than the divisor
\* and of the sign of the dividend
ExactResult(func, a, b, r) ==
    CASE func = "add" -> r = a + b
      [] func = "sub" -> r = a - b
      [] func = "mul" -> r = a * b
      [] func = "div" ->
            b # 0 => /\ Abs(a - r * b) < Abs(b)
                     /\ a - r * b # 0 => Sign(a - r * b) = Sign(a)

\* C16 as stated: on two number literals the arithmetic builtins return the
\* exact integer as a number literal, the quotient truncated toward zero; on
\* a float and a number they return a float; on another value they fail
C16_ArithmeticReturns ==
    [][ ArithOfTwo
        => LET x == Top.vals[1]
               y == Top.vals[2]
           IN IF x.t = "Number" /\ y.t = "Number"
              THEN /\ ret'.ok
                   /\ ret'.v.t = "Number"
                   /\ ExactResult(Top.e.func, BigIntFromStr(x.n).v, BigIntFromStr(y.n).v,
                                  BigIntFromStr(ret'.v.n).v)
              ELSE IF {x.t, y.t} \subseteq {"Number", "Float64"}
              THEN ret'.ok /\ ret'.v.t = "Float64"
              ELSE ~ret'.ok /\ ~IsPanic(ret') ]_vars

\* the activation on top is a call of a function of the script whose
\* arguments are evaluated
FuncCalled ==
    /\ Running
    /\ Top.e.k = "Apply"
    /\ Top.e.func \in DOMAIN func_env
    /\ ~IsTransport(Top.e.func)
    /\ Top.pc = "apply"

\* the activation on top runs the body of a function
InBody == Running /\ Top.e.k = "Apply" /\ Top.pc \in {"body", "stmt"}

\* the statements of the body of the activation on top that have started, in
\* the order they started
StartedStmts ==
    SelectSeq(evald, LAMBDA p : /\ Len(p) = Len(Top.pos) + 1
                                /\ SubSeq(p, 1, Len(Top.pos)) = Top.pos
                                /\ p[Len(p)] > BodyBase)

Earlier(p, q) ==
    \E k \in 1..Len(q) :
        /\ k <= Len(p) + 1
        /\ \A j \in 1..(k - 1) : p[j] = q[j]
        /\ k = Len(p) + 1 \/ p[k] < q[k]

\* the sub-expressions right under position pos that eval was called on, in
\* the order of the calls
ChildrenOf(pos) ==
    SelectSeq(evald, LAMBDA p : Len(p) = Len(pos) + 1 /\ SubSeq(p, 1, Len(pos)) = pos)

\* of the n arguments at the positions under base, the activation f has had
\* the first ones evaluated, one after the other: none before it starts,
\* f.i of them in the loop, and all once it is past the loop
ArgsInOrder(f, n, base) ==
    ChildrenOf(base) = [i \in 1..(IF f.pc = "start" THEN 0
                                  ELSE IF f.pc = "args" THEN f.i ELSE n) |-> Append(base, i)]

\* C18: within one evaluation eval is called at most once on a
\* sub-expression, the arguments of an Apply, of a Call, of an entry of a
\* ParCall, of a vector and of a record are evaluated from the left to the
\* right, and when an argument fails no later argument is evaluated and no
\* resolution, encoding, network call or log append follows in the expression
C18_EvaluatedOnceInOrder ==
    /\ [](\A i, j \in 1..Len(evald) : i < j => Earlier(evald[i], evald[j]))
    /\ [](\A k \in 1..Len(stack) :
            LET f == stack[k] IN
            CASE f.e.k = "Apply" /\ f.e.func \notin {"ite", "exist", "export"} ->
                    ArgsInOrder(f, Len(f.e.exps), f.pos)
              [] f.e.k = "Call" -> ArgsInOrder(f, Len(f.e.args), f.pos)
              [] f.e.k = "Vec" -> ArgsInOrder(f, Len(f.e.es), f.pos)
              [] f.e.k = "Record" -> ArgsInOrder(f, Len(f.e.fields), f.pos)
              [] f.e.k = "ParCall" /\ f.pc \in {"start", "args", "resolve"} ->
                    ArgsInOrder(f, Len(f.e.calls[f.ci].args), Append(f.pos, f.ci))
              [] OTHER -> TRUE)
    /\ [][ (HandedError /\ Top.pc = "args")
           => /\ Returns
              /\ ret' = ret
              /\ UNCHANGED <<evald, net, messages, sink, canister_map, calls_ok>> ]_vars

\* the second of the three elements of a vector failed, after the first was
\* evaluated
C18_Witness ==
    /\ HandedError
    /\ Top.e.k = "Vec"
    /\ Top.pc = "args"
    /\ Top.i = 2
    /\ Len(Top.e.es) = 3
    /\ Len(Top.vals) = 1

\* ------------------------------------------------------------------- C19

\* a Call in the Proxy mode is the activation on top
OnProxy == Running /\ Top.e.k = "Call" /\ Top.e.mode = "Proxy"

\* the calls in requests that were sent for the expression at pos
CallsFor(requests, pos) ==
    { i \in DOMAIN requests :
        requests[i].kind \in {"query", "update"} /\ requests[i].by = pos }

\* the bytes the arguments f evaluated serialize to
EncodedArgs(f) ==
    IF CallSignature(f) # None
    THEN to_bytes_with_types(f.vals, CallSignature(f).some.args)
    ELSE to_bytes(f.vals)

\* request rq calls wallet_call of the relay of f with the argument bytes of
\* f as the payload for the method of f
RelaysArgs(rq, f) ==
    /\ rq.canister_id = f.hids[2]
    /\ rq.method = "wallet_call"
    /\ rq.arg.fmt = "candid"
    /\ Len(rq.arg.vals) = 1
    /\ project(rq.arg.vals[1], <<"args">>) = Ok(VBlob(EncodedArgs(f).v))
    /\ project(rq.arg.vals[1], <<"method_name">>) = Ok(VText(f.e.method.method))
    /\ project(rq.arg.vals[1], <<"canister">>) = Ok(VPrincipal(f.hids[1]))

\* the step the Proxy mode on top takes fails without a call for it, when the
\* cache of the parent has no interface of the relay
FailsUnrelayed ==
    (/\ Top.pc = "proxy"
     /\ str_to_principal(Top.e.proxy, env).ok
     /\ str_to_principal(Top.e.proxy, env).v \notin DOMAIN canister_map)
    => /\ stack' = Rest
       /\ ~ret'.ok
       /\ CallsFor(net', Top.pos) = {}
       /\ sink' = sink

\* when the Proxy mode on top is about to decode, the relay was called once,
\* with the argument bytes, and _ of the child is its answer; offline nothing
\* was sent, the envelope is in the output and _ is the empty answer
RelayedOnce ==
    (Top.pc = "decode")
    => /\ "_" \in DOMAIN Top.henv.some
       /\ IF offline
          THEN /\ CallsFor(net, Top.pos) = {}
               /\ Len(Top.hlog) = 1
               /\ sink # <<>> /\ sink[Len(sink)] = to_string(Top.hlog[1])
               /\ Top.henv.some["_"] = args_to_value(<<>>)
          ELSE /\ Cardinality(CallsFor(net, Top.pos)) = 1
               /\ \A i \in CallsFor(net, Top.pos) : RelaysArgs(net[i], Top)
               /\ \E b \in Replies("wallet_call") :
                     /\ DecodeReply(b, RelaySignature(Top)).ok
                     /\ Top.henv.some["_"]
                          = args_to_value(DecodeReply(b, RelaySignature(Top)).v)

\* the Proxy mode on top returns a value only as its last step, and the
\* value is _ of the child
YieldsChildResult ==
    (stack' = Rest /\ ret' # NoRet /\ ret'.ok)
    => /\ Top.pc = "yield"
       /\ "_" \in DOMAIN Top.henv.some
       /\ ret'.v = Top.henv.some["_"]

\* the Proxy mode on top has decoded in this step
Decoded ==
    /\ Top.pc = "decode"
    /\ Len(stack') = Len(stack)
    /\ stack'[Len(stack')].pc = "yield"

\* what the answer of the relay hands back for the target, decoded with
\* signature
DecodedWith(f, signature) ==
    LET blob == project(f.henv.some["_"], <<"Ok", "return">>) IN
    IF ~blob.ok \/ value_ty(blob.v) # "blob" THEN blob
    ELSE LET args == DecodeReply(blob.v.bytes, signature) IN
         IF args.ok THEN Ok(args_to_value(args.v)) ELSE args

\* the decoding used the return type of the target method
DecodedTyped ==
    Decoded =>
        LET signature == SignatureIn(Interface, Top.hids[1], Top.e.method.method) IN
        /\ signature # None
        /\ DecodedWith(Top, signature) = Ok(stack'[Len(stack')].henv.some["_"])

\* the decoding used the return type of the target method if the child has
\* the interface of the target and it declares the method, and no type if not
DecodedAsResolved ==
    Decoded =>
        LET signature == SignatureIn(stack'[Len(stack')].hmap, Top.hids[1],
                                     Top.e.method.method) IN
        DecodedWith(Top, signature) = Ok(stack'[Len(stack')].henv.some["_"])

\* C19, as stated: a Call in the Proxy mode encodes the arguments, then in a
\* child environment issues one call to wallet_call of the relay that carries
\* the bytes, and only after it succeeded decodes the answer with the return
\* type of the target method; its value is _ of the child; the variables of
\* the parent do not change; without an interface of the relay in the cache
\* of the parent it fails before a call is issued
C19_ProxyDecodesWithReturnType ==
    [][OnProxy =>
        /\ env' = env
        /\ FailsUnrelayed
        /\ RelayedOnce
        /\ DecodedTyped
        /\ YieldsChildResult]_vars

\* C19, amended: as stated, but the answer is decoded with the return type
\* of the target method only if the child helper gets the interface of the
\* target and it declares the method, and is decoded without a type
\* otherwise; offline the call to the relay is signed and written out
\* instead of sent
C19_ProxyRelaysThenDecodes ==
    [][OnProxy =>
        /\ env' = env
        /\ FailsUnrelayed
        /\ RelayedOnce
        /\ DecodedAsResolved
        /\ YieldsChildResult]_vars

\* a call through the wallet, whose interface the parent has cached, is about
\* to yield what the child decoded from the answer of the relay
C19_Witness ==
    /\ OnProxy
    /\ Top.pc = "yield"
    /\ ~offline
    /\ Top.hids = <<"p1", "pw">>
    /\ Cardinality(CallsFor(net, Top.pos)) = 1
    /\ Top.henv.some["_"] = VText("r1")


\* ------------------------------------------------------------------- C20

\* exec, whose child was spawned, is the activation on top
OnExec == Running /\ Top.e.k = "Apply" /\ Top.e.func = "exec" /\ Top.proc # None

\* C20: exec returns, with a value or with an error, only after every reader
\* thread it spawned has ended and been joined; and if the child exits with
\* a status that is no success, exec returns an error that carries the exit
\* code
C20_ExecJoinsReaders ==
    [][(OnExec /\ stack' = Rest) =>
        /\ Top.proc.some.stdout_thread = "joined"
        /\ Top.proc.some.stderr_thread \in {"none", "joined"}
        /\ Top.proc.some.run.code # Some(0)
           => /\ ~ret'.ok
              /\ ret'.e = "exec failed with status "
                          \o ToString(unwrap_or(Top.proc.some.run.code, 0 - 1))]_vars

\* ------------------------------------------------------------------- C21

\* future i of the batch on top goes from st to st2 in this step
Turns(i, st, st2) ==
    /\ Len(stack') = Len(stack)
    /\ i \in DOMAIN Top.futs
    /\ Top.futs[i].st = st
    /\ stack'[Len(stack')].futs[i].st = st2

\* C21: every call of a ParCall batch is issued as an update that goes to the
\* network and is waited for, whatever its signature says and also in
\* offline mode: a step of a ParCall sends nothing but updates, a future
\* starts by sending its update and has an answer only after it was in
\* flight, and the log and the sink stay as they are
C21_ParCallIssuesLiveUpdates ==
    [][ (Running /\ Top.e.k = "ParCall")
        => /\ messages' = messages
           /\ sink' = sink
           /\ \A i \in SentBy(net', "parallel_calls", Top.pos) : net'[i].kind = "update"
           /\ \A i \in DOMAIN Top.futs :
                 /\ Turns(i, "created", "inflight")
                    => /\ Len(net') = Len(net) + 1
                       /\ net'[Len(net')].kind = "update"
                       /\ net'[Len(net')].fn = "parallel_calls"
                       /\ net'[Len(net')].canister_id = Top.futs[i].canister_id
                       /\ net'[Len(net')].method = Top.futs[i].method
                       /\ net'[Len(net')].arg = Top.futs[i].arg
                 /\ ~Turns(i, "created", "ok") ]_vars

\* offline, a batch has the answer to the update it sent for a method whose
\* signature has the query flag, and nothing is in the log or the sink
C21_Witness ==
    /\ offline
    /\ At("ParCall", "join")
    /\ messages = <<>>
    /\ sink = <<>>
    /\ \E i \in DOMAIN Top.futs :
          /\ Top.futs[i].st = "ok"
          /\ IsQueryCall(Top.futs[i].signature)
          /\ \E k \in SentBy(net, "parallel_calls", Top.pos) :
                net[k].kind = "update" /\ net[k].method = Top.futs[i].method

\* ------------------------------------------------------------------- C22

\* how far the calls of the batch on top are
FutStates == IF Running THEN [i \in DOMAIN Top.futs |-> Top.futs[i].st] ELSE <<>>

\* C22: once a call of a batch has failed, the next step of the batch is its
\* return, with the error of that call and nothing else, whatever the other
\* calls are doing: no other call of the batch is polled or completes after
\* the failure, and no answer a sibling had is handed back
C22_FailureAbandonsSiblings ==
    [][ (At("ParCall", "join") /\ \E i \in DOMAIN Top.futs : Top.futs[i].st = "err")
        => /\ Len(Top.failed) = 1
           /\ stack' = Rest
           /\ ~ret'.ok
           /\ ret'.e = Top.futs[Top.failed[1]].out ]_<<Len(stack), FutStates>>

\* a call of a batch failed while the update of a sibling is on the network
\* without an answer and another sibling has its answer
C22_Witness ==
    /\ At("ParCall", "join")
    /\ \E i, j, k \in DOMAIN Top.futs :
          /\ Top.futs[i].st = "err"
          /\ Top.futs[j].st = "inflight"
          /\ \E n \in SentBy(net, "parallel_calls", Top.pos) :
                net[n].method = Top.futs[j].method /\ net[n].kind = "update"
          /\ Top.futs[k].st = "ok"

\* ------------------------------------------------------------------- C23

\* the arguments of an application of read_state or send are evaluated
TransportApplied ==
    /\ Running
    /\ Top.e.k = "Apply"
    /\ Top.e.func \in {"read_state", "send"}
    /\ Top.pc = "apply"

\* the requests of read_state and send in requests
StateRequests(requests) ==
    { i \in DOMAIN requests : requests[i].kind \in {"read_state", "send"} }

\* C23: offline, an application of read_state or send is an application of
\* the function of the script of that name: it fails with the error of an
\* unknown function if there is none, it runs the body or fails on the
\* number of arguments if there is one, and no request of read_state or send
\* is ever sent; with a live agent it is the builtin, also when the script
\* has a function of that name, whose body does not run
C23_OfflineBuiltinsAreUserFunctions ==
    /\ [][ TransportApplied
           => IF offline
              THEN /\ net' = net
                   /\ IF Top.e.func \notin DOMAIN func_env
                      THEN /\ Returns
                           /\ ret' = Err("Unknown function " \o Top.e.func)
                      ELSE IF Len(func_env[Top.e.func][1]) = Len(Top.vals)
                      THEN Len(stack') = Len(stack) /\ stack'[Len(stack')].pc = "body"
                      ELSE Returns /\ ~ret'.ok
              ELSE /\ Len(stack') = Len(stack)
                   /\ stack'[Len(stack')].pc = "transport" ]_vars
    /\ [][ offline => StateRequests(net') = {} ]_vars
    /\ [][ \A k \in DOMAIN stack :
              (~offline /\ stack[k].e.k = "Apply"
                        /\ stack[k].e.func \in {"read_state", "send"})
              => stack[k].pc \notin {"body", "stmt"} ]_vars

\* with a live agent, send of a message has gone to the network although
\* the script has a function send of one argument
C23_Witness ==
    /\ ~offline
    /\ "send" \in DOMAIN func_env
    /\ ~Running
    /\ ret = Ok(VText("r1"))
    /\ net # <<>>
    /\ net[Len(net)].kind = "send"

\* ------------------------------------------------------------------- C24

\* exec waits for its child, which has a line to write to a pipe that is
\* full and that no thread reads or will read
ChildBlockedForever ==
    /\ Running
    /\ Top.e.k = "Apply"
    /\ Top.pc = "wait"
    /\ LET proc == Top.proc.some IN
       /\ proc.child = "running"
       /\ proc.written < Len(proc.run.writes)
       /\ LET to == proc.run.writes[proc.written + 1].to IN
          /\ Len(proc[to]) = PipeCap
          /\ proc[IF to = "stdout" THEN "stdout_thread" ELSE "stderr_thread"] = "none"

\* C24: the child of exec is never blocked for good on a full pipe that no
\* reader thread drains while exec waits for its exit, so exec returns once
\* the child has written its output
C24_ChildNeverBlockedForever == ~ChildBlockedForever

\* ------------------------------------------------------------------- C25

\* C25: an offline call that fails to sign its request, or the status
\* request of its update, returns an error with the log and the sink as they
\* were; a line is written to the sink only for the envelope that is last
\* in the log already, so every line of the sink is that of an envelope of
\* the log; and a write to the sink that fails returns an error and leaves
\* the envelope in the log
C25_OfflineFailuresAndOrder ==
    /\ [][ (offline /\ At("Call", "call") /\ Returns)
           => /\ ~ret'.ok
              /\ messages' = messages
              /\ sink' = sink ]_vars
    /\ [][ sink' # sink
           => /\ messages' = messages
              /\ messages # <<>>
              /\ sink' = Append(sink, to_string(messages[Len(messages)])) ]_vars
    /\ [](\A i \in DOMAIN sink : \E j \in DOMAIN messages : sink[i] = to_string(messages[j]))
    /\ [][ (offline /\ At("Call", "output") /\ Returns)
           => /\ ~ret'.ok
              /\ sink' = sink
              /\ messages' = messages
              /\ messages[Len(messages)] = Top.msg.some ]_vars

\* an offline call has failed to write its envelope to the sink: the log
\* holds the envelope of an earlier call and this one, the sink the line of
\* the earlier call only
C25_Witness ==
    /\ offline
    /\ ~Running
    /\ ret = Err("cannot write to the offline output")
    /\ Len(messages) = 2
    /\ sink = <<to_string(messages[1])>>

====
